---- MODULE Spec2Model ----
(***************************************************************************)
(* Model of the data aggregation and query-resolution core of the         *)
(* manufacturing chatbot (src/data_processor.py).                          *)
(*                                                                         *)
(* Python strings are sequences of one-character strings, so that         *)
(* substring tests, regular-expression searches, formatting and parsing   *)
(* are computed character by character as the code computes them.         *)
(***************************************************************************)
EXTENDS Integers, Sequences, FiniteSets, TLC

VARIABLES
    pc,          \* position inside get_specific_file_data
    query,       \* the query argument
    machine,     \* the machine argument
    now,         \* what datetime.now() returns during the call
    month_year,  \* what _extract_date_from_query returned (or that it raised)
    date_start,  \* first bound of the window, formatted
    date_end,    \* second bound of the window, formatted
    issued,      \* filter expressions handed to table_client.query_entities
    backend,     \* "file": get_machine_data, "table": get_specific_file_data
    dpc,         \* position inside the load of one table
    source,      \* the content of the CSV file, or the entities of the query
    frame,       \* the frame built from source and handed to the normalizer
    cleaned,     \* the frame the normalizer returned
    combined_data,  \* data['combined_data']
    file_summary,   \* data['files'][...]['summary']
    machine_summary, \* data['summary']
    resummary,   \* what the machine summary returns when called once more
    cpc,         \* position inside process_chat_query
    machine_data,   \* what get_specific_file_data returned to it
    calls,       \* the components process_chat_query has called, in order
    caller,      \* the method of the client that is inside _call_llama
    lpc,         \* position inside _call_llama
    attempts,    \* the backends this call of _call_llama has tried, in order
    outcome,     \* what the backend tried last did
    llama_ret,   \* what _call_llama returned
    analysis,    \* what analyze_query returned
    response_text,  \* what generate_response returned
    charts,      \* what generate_charts returned
    result,      \* what process_chat_query returned
    self_machine_name,  \* chart_generator.machine_name, the attribute of the one generator
    rpc,         \* position of each request inside generate_charts
    request_machine,  \* machine_data['machine'] of each request
    oee_title,   \* the 'title' of the OEE chart of each request
    oee_description,  \* the 'description' of the OEE chart of each request
    fpc,         \* position inside get_machine_data
    csv_files,   \* what glob.glob found in the machine directory, in order
    data_files,  \* data['files']
    all_data_frames  \* the frames appended so far

fetch_vars == <<pc, query, machine, now, month_year, date_start, date_end, issued>>

data_vars ==
    <<backend, dpc, source, frame, cleaned, combined_data, file_summary, machine_summary,
      resummary>>

llama_vars == <<caller, lpc, attempts, outcome, llama_ret>>

chat_vars ==
    <<cpc, machine_data, calls, llama_vars, analysis, response_text, charts, result>>

generator_vars == <<self_machine_name, rpc, request_machine, oee_title, oee_description>>

load_vars == <<fpc, csv_files, data_files, all_data_frames>>

extra_vars == <<generator_vars, load_vars>>

vars == <<fetch_vars, data_vars, chat_vars, extra_vars>>

---------------------------------------------------------------------------
(* Characters and strings *)

Alphabet ==
    <<"a", "b", "c", "d", "e", "f", "g", "h", "i", "j", "k", "l", "m",
      "n", "o", "p", "q", "r", "s", "t", "u", "v", "w", "x", "y", "z">>

Capitals ==
    <<"A", "B", "C", "D", "E", "F", "G", "H", "I", "J", "K", "L", "M",
      "N", "O", "P", "Q", "R", "S", "T", "U", "V", "W", "X", "Y", "Z">>

Digits == <<"0", "1", "2", "3", "4", "5", "6", "7", "8", "9">>

Letters == { Alphabet[i] : i \in 1..26 } \cup { Capitals[i] : i \in 1..26 }

DigitChars == { Digits[i] : i \in 1..10 }

IsIn(c, seq) == \E i \in 1..Len(seq) : seq[i] = c

PosIn(c, seq) == CHOOSE i \in 1..Len(seq) : seq[i] = c

IsDigit(c) == c \in DigitChars

DigitVal(c) == PosIn(c, Digits) - 1

\* \w of the re module, on ASCII
IsWordChar(c) == c \in Letters \/ IsDigit(c) \/ c = "_"

LowerChar(c) == IF IsIn(c, Capitals) THEN Alphabet[PosIn(c, Capitals)] ELSE c

\* str.lower()
lower(s) == [i \in 1..Len(s) |-> LowerChar(s[i])]

MatchAt(sub, s, i) ==
    /\ i >= 1
    /\ i + Len(sub) - 1 <= Len(s)
    /\ \A k \in 1..Len(sub) : s[i + k - 1] = sub[k]

\* sub in s
Contains(sub, s) == \E i \in 1..Len(s) : MatchAt(sub, s, i)

\* \b before position i of s (i = Len(s) + 1 is the end of the string)
WordBoundary(s, i) ==
    LET before == i > 1 /\ i - 1 <= Len(s) /\ IsWordChar(s[i - 1])
        after  == i >= 1 /\ i <= Len(s) /\ IsWordChar(s[i])
    IN before # after

\* re.search(rf'\b{key}\b', s) finds a match
SearchWord(key, s) ==
    \E i \in 1..Len(s) :
        /\ MatchAt(key, s, i)
        /\ WordBoundary(s, i)
        /\ WordBoundary(s, i + Len(key))

YearMatchAt(s, i) ==
    /\ i + 3 <= Len(s)
    /\ s[i] = "2"
    /\ s[i + 1] = "0"
    /\ IsDigit(s[i + 2])
    /\ IsDigit(s[i + 3])

\* re.search(r'20\d{2}', s): the leftmost match's text, <<>> when there is none
SearchYear(s) ==
    IF \E i \in 1..Len(s) : YearMatchAt(s, i)
    THEN LET i == CHOOSE j \in 1..Len(s) :
                      /\ YearMatchAt(s, j)
                      /\ \A k \in 1..(j - 1) : ~YearMatchAt(s, k)
         IN SubSeq(s, i, i + 3)
    ELSE <<>>

\* str(n) of an int
RECURSIVE str(_)
str(n) ==
    IF n < 0 THEN <<"-">> \o str(-n)
    ELSE IF n < 10 THEN <<Digits[n + 1]>>
    ELSE str(n \div 10) \o <<Digits[(n % 10) + 1]>>

\* int(s) of a string of decimal digits
RECURSIVE int(_)
int(s) ==
    IF Len(s) = 0 THEN 0
    ELSE int(SubSeq(s, 1, Len(s) - 1)) * 10 + DigitVal(s[Len(s)])

\* '%0<width>d' % n, as strftime pads %Y, %m and %d
RECURSIVE ZeroPad(_, _)
ZeroPad(s, width) == IF Len(s) >= width THEN s ELSE ZeroPad(<<"0">> \o s, width)

---------------------------------------------------------------------------
(* The calendar (calendar.monthrange, dateutil.relativedelta, date.strftime) *)

isleap(year) == year % 4 = 0 /\ (year % 100 # 0 \/ year % 400 = 0)

mdays == <<31, 28, 31, 30, 31, 30, 31, 31, 30, 31, 30, 31>>

\* monthrange without the leap day
monthrange_NoLeap(year, month) == mdays[month]

\* calendar.monthrange(year, month)[1]
monthrange(year, month) ==
    mdays[month] + (IF month = 2 /\ isleap(year) THEN 1 ELSE 0)

\* the month before, without the carry into the year before
MinusOneMonth_NoRollover(d) == [year |-> d.year, month |-> d.month - 1, day |-> d.day]

\* d - relativedelta(months=1)
MinusOneMonth(d) ==
    LET y == IF d.month = 1 THEN d.year - 1 ELSE d.year
        m == IF d.month = 1 THEN 12 ELSE d.month - 1
        last == monthrange(y, m)
    IN [year |-> y, month |-> m, day |-> IF d.day > last THEN last ELSE d.day]

\* date(year, month, day).strftime("%Y-%m-%d")
strftime(year, month, day) ==
    ZeroPad(str(year), 4) \o <<"-">> \o ZeroPad(str(month), 2)
        \o <<"-">> \o ZeroPad(str(day), 2)

---------------------------------------------------------------------------
(* _extract_date_from_query *)

\* the months dict, in insertion order
months ==
    << [key |-> <<"j", "a", "n", "u", "a", "r", "y">>, value |-> 1],
       [key |-> <<"j", "a", "n">>, value |-> 1],
       [key |-> <<"f", "e", "b", "r", "u", "a", "r", "y">>, value |-> 2],
       [key |-> <<"f", "e", "b">>, value |-> 2],
       [key |-> <<"m", "a", "r", "c", "h">>, value |-> 3],
       [key |-> <<"m", "a", "r">>, value |-> 3],
       [key |-> <<"a", "p", "r", "i", "l">>, value |-> 4],
       [key |-> <<"a", "p", "r">>, value |-> 4],
       [key |-> <<"m", "a", "y">>, value |-> 5],
       [key |-> <<"j", "u", "n", "e">>, value |-> 6],
       [key |-> <<"j", "u", "n">>, value |-> 6],
       [key |-> <<"j", "u", "l", "y">>, value |-> 7],
       [key |-> <<"j", "u", "l">>, value |-> 7],
       [key |-> <<"a", "u", "g", "u", "s", "t">>, value |-> 8],
       [key |-> <<"a", "u", "g">>, value |-> 8],
       [key |-> <<"s", "e", "p", "t", "e", "m", "b", "e", "r">>, value |-> 9],
       [key |-> <<"s", "e", "p">>, value |-> 9],
       [key |-> <<"s", "e", "p", "t">>, value |-> 9],
       [key |-> <<"o", "c", "t", "o", "b", "e", "r">>, value |-> 10],
       [key |-> <<"o", "c", "t">>, value |-> 10],
       [key |-> <<"n", "o", "v", "e", "m", "b", "e", "r">>, value |-> 11],
       [key |-> <<"n", "o", "v">>, value |-> 11],
       [key |-> <<"d", "e", "c", "e", "m", "b", "e", "r">>, value |-> 12],
       [key |-> <<"d", "e", "c">>, value |-> 12] >>

ThisMonth == <<"t", "h", "i", "s", " ", "m", "o", "n", "t", "h">>
LastMonth == <<"l", "a", "s", "t", " ", "m", "o", "n", "t", "h">>
ThisYear  == <<"t", "h", "i", "s", " ", "y", "e", "a", "r">>
LastYear  == <<"l", "a", "s", "t", " ", "y", "e", "a", "r">>

\* A query argument: a str, or an object that is no str (None)
StrQuery(s) == [isstr |-> TRUE, s |-> s]
NoneQuery == [isstr |-> FALSE, s |-> <<>>]

Returned(month, year) == [raised |-> FALSE, month |-> month, year |-> year]
Raised == [raised |-> TRUE, month |-> 0, year |-> <<>>]

\* the loop with a substring test ('key in query_lower') for the word search
MonthLoop_Substring(query_lower) ==
    IF \E i \in 1..Len(months) : Contains(months[i].key, query_lower)
    THEN months[CHOOSE i \in 1..Len(months) :
                    /\ Contains(months[i].key, query_lower)
                    /\ \A j \in 1..(i - 1) : ~Contains(months[j].key, query_lower)].value
    ELSE 0

\* the for loop over months.items(): the first key, in dict order, that the
\* query holds as a whole word gives the month; None (0) when no key does
\* where re.search(rf'\b{key}\b', s) finds its match, 0 when it finds none
WordStart(key, s) ==
    LET found == { i \in 1..Len(s) :
                     /\ MatchAt(key, s, i)
                     /\ WordBoundary(s, i)
                     /\ WordBoundary(s, i + Len(key)) }
    IN IF found = {} THEN 0 ELSE CHOOSE i \in found : \A j \in found : i <= j

\* a loop that takes the month word that stands first in the query
MonthLoop_Leftmost(query_lower) ==
    IF \E i \in 1..Len(months) : SearchWord(months[i].key, query_lower)
    THEN months[CHOOSE i \in 1..Len(months) :
                    /\ SearchWord(months[i].key, query_lower)
                    /\ \A j \in 1..Len(months) :
                         SearchWord(months[j].key, query_lower) =>
                             \/ WordStart(months[i].key, query_lower)
                                  < WordStart(months[j].key, query_lower)
                             \/ /\ WordStart(months[i].key, query_lower)
                                     = WordStart(months[j].key, query_lower)
                                /\ i <= j].value
    ELSE 0

MonthLoop(query_lower) ==
    IF \E i \in 1..Len(months) : SearchWord(months[i].key, query_lower)
    THEN months[CHOOSE i \in 1..Len(months) :
                    /\ SearchWord(months[i].key, query_lower)
                    /\ \A j \in 1..(i - 1) : ~SearchWord(months[j].key, query_lower)].value
    ELSE 0

\* the body with "this year" tested before "last month"
ExtractBody_YearFirst(query_lower, n) ==
    IF Contains(ThisMonth, query_lower) THEN Returned(n.month, str(n.year))
    ELSE IF Contains(ThisYear, query_lower) THEN Returned(1, str(n.year))
    ELSE IF Contains(LastMonth, query_lower)
         THEN LET last_month == MinusOneMonth(n)
              IN Returned(last_month.month, str(last_month.year))
    ELSE IF Contains(LastYear, query_lower) THEN Returned(1, str(n.year - 1))
    ELSE LET month == MonthLoop(query_lower)
             year_match == SearchYear(query_lower)
             year == IF year_match # <<>> THEN year_match ELSE str(n.year)
         IN Returned(IF month = 0 THEN 1 ELSE month, year)

\* the body of the try block, for a str query, with now bound
ExtractBody(query_lower, n) ==
    IF Contains(ThisMonth, query_lower) THEN Returned(n.month, str(n.year))
    ELSE IF Contains(LastMonth, query_lower)
         THEN LET last_month == MinusOneMonth(n)
              IN Returned(last_month.month, str(last_month.year))
    ELSE IF Contains(ThisYear, query_lower) THEN Returned(1, str(n.year))
    ELSE IF Contains(LastYear, query_lower) THEN Returned(1, str(n.year - 1))
    ELSE LET month == MonthLoop(query_lower)
             year_match == SearchYear(query_lower)
             year == IF year_match # <<>> THEN year_match ELSE str(n.year)
         IN Returned(IF month = 0 THEN 1 ELSE month, year)

\* The except branch returns (now.month, str(now.year)); now is a local that
\* the try block binds only after query.lower() has returned, so the branch
\* raises UnboundLocalError when it is entered before that.
ExceptBranch(now_bound, n) ==
    IF now_bound THEN Returned(n.month, str(n.year)) ELSE Raised

\* query.lower() raises AttributeError when query is no str; nothing after
\* the binding of now raises
_extract_date_from_query(q, n) ==
    IF q.isstr THEN ExtractBody(lower(q.s), n) ELSE ExceptBranch(FALSE, n)

---------------------------------------------------------------------------
(* get_specific_file_data, up to the table query *)

DeviceEq == <<"d", "e", "v", "i", "c", "e", "_", "n", "a", "m", "e", " ", "e", "q", " ", "'">>
AndDateGe == <<"'", " ", "a", "n", "d", " ", "d", "a", "t", "e", " ", "g", "e", " ", "'">>
AndDateLe == <<"'", " ", "a", "n", "d", " ", "d", "a", "t", "e", " ", "l", "e", " ", "'">>
Quote == <<"'">>

\* the filter with exclusive bounds (gt, lt)
FilterExpr_Exclusive(m, start, end) ==
    DeviceEq \o m
        \o <<"'", " ", "a", "n", "d", " ", "d", "a", "t", "e", " ", "g", "t", " ", "'">>
        \o start
        \o <<"'", " ", "a", "n", "d", " ", "d", "a", "t", "e", " ", "l", "t", " ", "'">>
        \o end \o Quote

\* the f-string of filter_expr
FilterExpr(m, start, end) ==
    DeviceEq \o m \o AndDateGe \o start \o AndDateLe \o end \o Quote

\* date(int(year), month, 1).strftime("%Y-%m-%d")
DateStart(my) == strftime(int(my.year), my.month, 1)

\* date(int(year), month, calendar.monthrange(int(year), month)[1]).strftime("%Y-%m-%d")
DateEnd(my) ==
    strftime(int(my.year), my.month, monthrange(int(my.year), my.month))

---------------------------------------------------------------------------
(* Cells of a table: NaN / None / NaT, numbers, booleans, strings, Timestamps *)

Null == [t |-> "null"]
Num(n) == [t |-> "num", v |-> n]
Bool(b) == [t |-> "bool", v |-> IF b THEN 1 ELSE 0]
Text(s) == [t |-> "str", s |-> s]
Timestamp(y, m, d) == [t |-> "date", year |-> y, month |-> m, day |-> d]

isna(c) == c.t = "null"

\* the text is YYYY-MM-DD and names a day of the calendar
IsDateText(s) ==
    /\ Len(s) = 10
    /\ s[5] = "-"
    /\ s[8] = "-"
    /\ \A i \in {1, 2, 3, 4, 6, 7, 9, 10} : IsDigit(s[i])
    /\ int(SubSeq(s, 1, 4)) >= 1
    /\ int(SubSeq(s, 6, 7)) \in 1..12
    /\ int(SubSeq(s, 9, 10)) >= 1
    /\ int(SubSeq(s, 9, 10)) <= monthrange(int(SubSeq(s, 1, 4)), int(SubSeq(s, 6, 7)))

\* pd.to_datetime(value, errors='coerce') on one cell of a column of texts,
\* numbers and NaN: a date text parses, any other text becomes NaT, a number
\* counts nanoseconds from 1970-01-01
to_datetime(c) ==
    CASE c.t = "str" ->
            IF IsDateText(c.s)
            THEN Timestamp(int(SubSeq(c.s, 1, 4)), int(SubSeq(c.s, 6, 7)),
                           int(SubSeq(c.s, 9, 10)))
            ELSE Null
      [] c.t = "num" ->
            IF c.v >= 0 THEN Timestamp(1970, 1, 1) ELSE Timestamp(1969, 12, 31)
      [] OTHER -> c

IsIntText(s) ==
    /\ Len(s) >= 1
    /\ LET body == IF s[1] = "-" THEN Tail(s) ELSE s
       IN Len(body) >= 1 /\ \A i \in 1..Len(body) : IsDigit(body[i])

\* pd.to_numeric(value, errors='coerce') on one cell of a column of texts,
\* numbers and NaN: a numeral parses, any other text becomes NaN
to_numeric(c) ==
    CASE c.t = "str" ->
            IF IsIntText(c.s)
            THEN Num(IF c.s[1] = "-" THEN 0 - int(Tail(c.s)) ELSE int(c.s))
            ELSE Null
      [] OTHER -> c

---------------------------------------------------------------------------
(* DataFrames: the column labels, each column's dtype, and the rows, each
   with its index label and its cells by column *)

Range(seq) == { seq[i] : i \in 1..Len(seq) }

\* the dtype pandas infers for a column of values
InferDtype(cells) ==
    IF cells = <<>> THEN "object"
    ELSE IF \A i \in 1..Len(cells) : cells[i].t = "num" THEN "int64"
    ELSE IF \A i \in 1..Len(cells) : cells[i].t \in {"num", "null"} THEN "float64"
    ELSE IF \A i \in 1..Len(cells) : cells[i].t = "bool" THEN "bool"
    ELSE IF \A i \in 1..Len(cells) : cells[i].t = "date" THEN "datetime64[ns]"
    ELSE "object"

\* the dtype of a column that to_numeric has coerced
NumericDtype(cells) ==
    IF \A i \in 1..Len(cells) : cells[i].t = "num" THEN "int64" ELSE "float64"

Column(rows, col) == [i \in 1..Len(rows) |-> rows[i].cells[col]]

\* pd.DataFrame(rows) and pd.read_csv(file_path): a RangeIndex from 0
DataFrame(columns, records) ==
    LET rows == [i \in 1..Len(records) |-> [index |-> i - 1, cells |-> records[i]]]
    IN [columns |-> columns,
        dtypes |-> [c \in Range(columns) |-> InferDtype(Column(rows, c))],
        rows |-> rows]

HasColumn(df, col) == col \in Range(df.columns)

\* df[col] = values, in place
SetColumn(df, col, values, dtype) ==
    [columns |-> df.columns,
     dtypes |-> [df.dtypes EXCEPT ![col] = dtype],
     rows |-> [i \in 1..Len(df.rows) |-> [df.rows[i] EXCEPT !.cells[col] = values[i]]]]

\* df.dropna(how='all')
dropna_all(df) ==
    [df EXCEPT !.rows =
        SelectSeq(df.rows, LAMBDA r : \E c \in Range(df.columns) : ~isna(r.cells[c]))]

\* df.dropna(subset=[col])
dropna_subset(df, col) ==
    [df EXCEPT !.rows = SelectSeq(df.rows, LAMBDA r : ~isna(r.cells[col]))]

\* df[keep_columns], for labels that are all columns of df
SelectColumns(df, keep) ==
    [columns |-> keep,
     dtypes |-> [c \in Range(keep) |-> df.dtypes[c]],
     rows |-> [i \in 1..Len(df.rows) |->
                  [index |-> df.rows[i].index,
                   cells |-> [c \in Range(keep) |-> df.rows[i].cells[c]]]]]

\* pd.concat([df], ignore_index=True) of a single frame: the rows are relabelled
concat(df) ==
    [df EXCEPT !.rows = [i \in 1..Len(df.rows) |-> [df.rows[i] EXCEPT !.index = i - 1]]]

\* the labels of the frames, each once, in the order they first appear
RECURSIVE UnionColumns(_)
UnionColumns(frames) ==
    IF frames = <<>> THEN <<>>
    ELSE LET before == UnionColumns(SubSeq(frames, 1, Len(frames) - 1))
         IN before \o SelectSeq(frames[Len(frames)].columns,
                                LAMBDA c : c \notin Range(before))

\* the rows of the frames one after the other, NaN where a frame has no
\* such column
RECURSIVE StackRows(_, _)
StackRows(frames, columns) ==
    IF frames = <<>> THEN <<>>
    ELSE LET df == Head(frames)
         IN [i \in 1..Len(df.rows) |->
                [c \in Range(columns) |->
                    IF HasColumn(df, c) THEN df.rows[i].cells[c] ELSE Null]]
            \o StackRows(Tail(frames), columns)

\* the dtype of a column of the concatenation
ConcatDtype(frames, col) ==
    LET parts == { frames[i].dtypes[col] :
                     i \in { k \in 1..Len(frames) : HasColumn(frames[k], col) } }
        lacking == \E i \in 1..Len(frames) : ~HasColumn(frames[i], col)
    IN IF Cardinality(parts) = 1 /\ ~lacking THEN CHOOSE d \in parts : TRUE
       ELSE IF parts \subseteq {"int64", "float64"} THEN "float64"
       ELSE IF parts = {"datetime64[ns]"} THEN "datetime64[ns]"
       ELSE "object"

\* a concatenation that leaves out the frames whose columns are not those
\* of the first frame
pd_concat_SameColumns(frames) ==
    LET same == SelectSeq(frames, LAMBDA df : df.columns = frames[1].columns)
        records == StackRows(same, frames[1].columns)
    IN [columns |-> frames[1].columns,
        dtypes |-> [c \in Range(frames[1].columns) |-> ConcatDtype(same, c)],
        rows |-> [i \in 1..Len(records) |-> [index |-> i - 1, cells |-> records[i]]]]

\* pd.concat(all_data_frames, ignore_index=True)
pd_concat(frames) ==
    LET columns == UnionColumns(frames)
        records == StackRows(frames, columns)
    IN [columns |-> columns,
        dtypes |-> [c \in Range(columns) |-> ConcatDtype(frames, c)],
        rows |-> [i \in 1..Len(records) |-> [index |-> i - 1, cells |-> records[i]]]]

---------------------------------------------------------------------------
(* clean_dataframe and sam_clean_dataframe *)

numeric_columns ==
    <<"Ai_partcount", "avg_apparent_power", "avg_avail", "avg_current",
      "avg_energy_consumption", "avg_oee", "avg_perf", "avg_quality",
      "avg_reactive_power", "avg_real_power", "avg_total_energy",
      "total_part_count", "total_part_reject", "total_running", "total_off",
      "total_idle", "powerUnitCost">>

\* if 'date' in df.columns: df['date'] = pd.to_datetime(df['date'], errors='coerce')
CoerceDate(df) ==
    IF HasColumn(df, "date")
    THEN SetColumn(df, "date",
                   [i \in 1..Len(df.rows) |-> to_datetime(df.rows[i].cells["date"])],
                   "datetime64[ns]")
    ELSE df

\* for col in numeric_columns: if col in df.columns: df[col] = pd.to_numeric(...)
RECURSIVE CoerceNumeric(_, _)
CoerceNumeric(df, k) ==
    IF k > Len(numeric_columns) THEN df
    ELSE LET col == numeric_columns[k]
         IN IF HasColumn(df, col)
            THEN LET values == [i \in 1..Len(df.rows) |->
                                   to_numeric(df.rows[i].cells[col])]
                 IN CoerceNumeric(SetColumn(df, col, values, NumericDtype(values)), k + 1)
            ELSE CoerceNumeric(df, k + 1)

\* clean_dataframe: arg is the caller's frame after the call (the coercions
\* assign its columns in place), ret is the frame returned
clean_dataframe(df) ==
    LET coerced == CoerceNumeric(CoerceDate(df), 1)
    IN [arg |-> coerced, ret |-> dropna_all(coerced)]

\* sam_clean_dataframe: df[keep_columns] raises KeyError when df has no
\* 'date' column; the except clause then returns df, the caller's frame
sam_clean_dataframe(df) ==
    LET coerced == CoerceNumeric(CoerceDate(df), 1)
        keep_columns ==
            <<"date">> \o SelectSeq(numeric_columns, LAMBDA col : HasColumn(df, col))
    IN IF HasColumn(df, "date")
       THEN [arg |-> coerced, ret |-> dropna_all(SelectColumns(coerced, keep_columns))]
       ELSE [arg |-> coerced, ret |-> coerced]

---------------------------------------------------------------------------
(* Aggregates.  Sums are integers; a ratio or a mean is a fraction n/d in
   lowest terms, and NaN is the fraction with d = 0 *)

Abs(n) == IF n < 0 THEN 0 - n ELSE n

Power10(k) == IF k = 0 THEN 1 ELSE IF k = 1 THEN 10 ELSE IF k = 2 THEN 100 ELSE 1000

RECURSIVE gcd(_, _)
gcd(a, b) == IF b = 0 THEN a ELSE gcd(b, a % b)

Frac(n, d) ==
    LET g == gcd(Abs(n), d)
    IN [n |-> n \div g, d |-> d \div g]

NaN == [n |-> 0, d |-> 0]

\* Series.sum(): NaN is skipped, the sum of nothing is 0
RECURSIVE SumCells(_)
SumCells(cells) ==
    IF cells = <<>> THEN 0
    ELSE (IF isna(Head(cells)) THEN 0 ELSE Head(cells).v) + SumCells(Tail(cells))

\* Series.count(): the values that are not NaN
RECURSIVE CountCells(_)
CountCells(cells) ==
    IF cells = <<>> THEN 0
    ELSE (IF isna(Head(cells)) THEN 0 ELSE 1) + CountCells(Tail(cells))

\* df[col].sum()
Series_sum(df, col) == SumCells(Column(df.rows, col))

\* df[col].mean(): NaN when no value is left
Series_mean(df, col) ==
    LET cells == Column(df.rows, col)
    IN IF CountCells(cells) = 0 THEN NaN ELSE Frac(SumCells(cells), CountCells(cells))

EmptyDict == [k \in {} |-> 0]

\* the quality rate with the rejected share for the accepted share
QualityRate_Rejected(produced, rejected) ==
    IF produced > 0 THEN Frac(rejected * 100, produced) ELSE Frac(0, 1)

\* ((produced - rejected) / produced) * 100 if produced > 0, else 0
QualityRate(produced, rejected) ==
    IF produced > 0 THEN Frac((produced - rejected) * 100, produced) ELSE Frac(0, 1)

\* get_file_summary, on a frame whose numeric columns have been coerced
get_file_summary(df) ==
    LET total_parts_produced ==
            IF HasColumn(df, "Ai_partcount") THEN Series_sum(df, "Ai_partcount") ELSE 0
        total_parts_rejected ==
            IF HasColumn(df, "total_part_reject")
            THEN Series_sum(df, "total_part_reject") ELSE 0
    IN ("total_records" :> Len(df.rows))
       @@ ("total_parts_produced" :> total_parts_produced)
       @@ ("total_parts_rejected" :> total_parts_rejected)
       @@ ("average_oee" :>
             IF HasColumn(df, "avg_oee") THEN Series_mean(df, "avg_oee") ELSE Frac(0, 1))
       @@ ("total_energy" :>
             IF HasColumn(df, "avg_total_energy")
             THEN Series_sum(df, "avg_total_energy") ELSE 0)
       @@ ("quality_rate" :> QualityRate(total_parts_produced, total_parts_rejected))

\* round(float(q), digits): to the nearest, the even one of two equally near
round(q, digits) ==
    IF q.d = 0 THEN NaN
    ELSE LET scaled == Abs(q.n) * Power10(digits)
             down == scaled \div q.d
             rest == scaled % q.d
             rounded == IF 2 * rest > q.d \/ (2 * rest = q.d /\ down % 2 = 1)
                        THEN down + 1 ELSE down
         IN Frac((IF q.n < 0 THEN 0 - rounded ELSE rounded), Power10(digits))

\* sam_get_file_summary: the figures of get_file_summary, as int and as
\* float rounded to two places
sam_get_file_summary(df) ==
    LET produced ==
            IF HasColumn(df, "Ai_partcount") THEN Series_sum(df, "Ai_partcount") ELSE 0
        rejected ==
            IF HasColumn(df, "total_part_reject")
            THEN Series_sum(df, "total_part_reject") ELSE 0
        avg_oee == IF HasColumn(df, "avg_oee") THEN Series_mean(df, "avg_oee") ELSE Frac(0, 1)
        total_energy ==
            IF HasColumn(df, "avg_total_energy")
            THEN Series_sum(df, "avg_total_energy") ELSE 0
    IN ("total_records" :> Len(df.rows))
       @@ ("total_parts_produced" :> produced)
       @@ ("total_parts_rejected" :> rejected)
       @@ ("average_oee" :> round(avg_oee, 2))
       @@ ("total_energy" :> round(Frac(total_energy, 1), 2))
       @@ ("quality_rate" :> round(QualityRate(produced, rejected), 2))

\* a <= b for Timestamps
DateLE(a, b) ==
    \/ a.year < b.year
    \/ a.year = b.year /\ a.month < b.month
    \/ a.year = b.year /\ a.month = b.month /\ a.day <= b.day

\* Timestamp.isoformat() of a date without time of day
isoformat(ts) ==
    strftime(ts.year, ts.month, ts.day)
        \o <<"T", "0", "0", ":", "0", "0", ":", "0", "0">>

\* get_date_range; None is the empty string here
get_date_range(df) ==
    LET dates == IF HasColumn(df, "date") THEN Column(df.rows, "date") ELSE <<>>
        known == { dates[i] : i \in { j \in 1..Len(dates) : ~isna(dates[j]) } }
    IN IF known # {}
       THEN [start |-> isoformat(CHOOSE a \in known : \A b \in known : DateLE(a, b)),
             end |-> isoformat(CHOOSE a \in known : \A b \in known : DateLE(b, a)),
             days |-> Cardinality(Range(dates))]
       ELSE [start |-> <<>>, end |-> <<>>, days |-> 0]

\* df[col].value_counts().to_dict(): each value that is not NaN, with its count
value_counts(df, col) ==
    LET cells == Column(df.rows, col)
        values == { cells[i] : i \in { j \in 1..Len(cells) : ~isna(cells[j]) } }
    IN [v \in values |-> Cardinality({ i \in 1..Len(cells) : cells[i] = v })]

\* str(ts.to_period('M'))
PeriodKey(ts) == ZeroPad(str(ts.year), 4) \o <<"-">> \o ZeroPad(str(ts.month), 2)

\* the groups by year: every row of the key's year
MonthGroup_ByYear(df, key) ==
    [df EXCEPT !.rows =
        SelectSeq(df.rows, LAMBDA r : SubSeq(PeriodKey(r.cells["date"]), 1, 4)
                                         = SubSeq(key, 1, 4))]

\* the rows of one group of df.groupby(df['date'].dt.to_period('M'))
MonthGroup(df, key) ==
    [df EXCEPT !.rows = SelectSeq(df.rows, LAMBDA r : PeriodKey(r.cells["date"]) = key)]

MonthKeys(df) == { PeriodKey(df.rows[i].cells["date"]) : i \in 1..Len(df.rows) }

\* groupby(...).agg({'Ai_partcount': 'sum', 'avg_oee': 'mean',
\* 'avg_total_energy': 'sum'[, 'energyCost': 'sum']}), keyed by str(period), for
\* a frame of dated rows that has the aggregated columns; fill is fillna(0)
MonthlyBreakdown(df, with_cost, fill) ==
    [key \in MonthKeys(df) |->
        LET group == MonthGroup(df, key)
            mean == Series_mean(group, "avg_oee")
            entry ==
                ("Ai_partcount" :> Series_sum(group, "Ai_partcount"))
                @@ ("avg_oee" :> IF fill /\ mean = NaN THEN Frac(0, 1) ELSE mean)
                @@ ("avg_total_energy" :> Series_sum(group, "avg_total_energy"))
        IN IF with_cost
           THEN entry @@ ("energyCost" :> Series_sum(group, "energyCost"))
           ELSE entry]

\* the part of both machine summaries that follows the maintenance count:
\* agg raises KeyError when a column it names is missing, and the except
\* clause of the summary then returns {}
TimeAnalysis(summary, df, agg_columns, fill) ==
    IF ~HasColumn(df, "date") THEN summary
    ELSE LET df_with_date == dropna_subset(df, "date")
         IN IF df_with_date.rows = <<>> THEN summary
            ELSE IF \E col \in agg_columns : ~HasColumn(df, col) THEN EmptyDict
            ELSE summary
                 @@ ("date_range" :> get_date_range(df_with_date))
                 @@ ("monthly_breakdown" :>
                       MonthlyBreakdown(df_with_date, "energyCost" \in agg_columns, fill))

StatusBreakdown(summary, df) ==
    IF HasColumn(df, "Machine Status")
    THEN summary @@ ("machine_status_breakdown" :> value_counts(df, "Machine Status"))
    ELSE summary

\* get_machine_summary
get_machine_summary(df) ==
    LET summary == StatusBreakdown(get_file_summary(df), df)
        maintained ==
            IF HasColumn(df, "Maintenance Flag")
            THEN summary @@ ("maintenance_events" :>
                    IF df.dtypes["Maintenance Flag"] \in {"int64", "float64"}
                    THEN Series_sum(df, "Maintenance Flag") ELSE 0)
            ELSE summary
    IN TimeAnalysis(maintained, df,
                    {"Ai_partcount", "avg_oee", "avg_total_energy", "energyCost"}, FALSE)

\* sam_get_machine_summary; v.item() turns a numpy scalar into the Python
\* number of the same value
sam_get_machine_summary(df) ==
    LET summary == StatusBreakdown(get_file_summary(df), df)
        maintained ==
            IF HasColumn(df, "Maintenance Flag")
            THEN summary @@ ("maintenance_events" :>
                    IF df.dtypes["Maintenance Flag"] \in {"int64", "float64", "bool"}
                    THEN Series_sum(df, "Maintenance Flag") ELSE 0)
            ELSE summary
    IN TimeAnalysis(maintained, df,
                    {"Ai_partcount", "avg_oee", "avg_total_energy"}
                        \cup (IF HasColumn(df, "energyCost") THEN {"energyCost"} ELSE {}),
                    TRUE)

\* a summary that drops the rows without date from the frame it is given
summarize_InPlace(df, variant) ==
    [arg |-> IF HasColumn(df, "date") THEN dropna_subset(df, "date") ELSE df,
     ret |-> IF variant = "file" THEN get_machine_summary(df)
             ELSE sam_get_machine_summary(df)]

\* one call of the machine summary of a load: arg is the caller's frame after
\* the call, ret the summary returned.  Neither summary assigns to df or to
\* one of its columns: dropna, groupby, agg and fillna return new objects
summarize(df, variant) ==
    [arg |-> df,
     ret |-> IF variant = "file" THEN get_machine_summary(df)
             ELSE sam_get_machine_summary(df)]

---------------------------------------------------------------------------
(* Inputs of get_specific_file_data *)

MaxFrags == 2

\* words and phrases a query is made of
Vocabulary ==
    { <<"t", "h", "i", "s", " ", "m", "o", "n", "t", "h">>,
      <<"L", "a", "s", "t", " ", "m", "o", "n", "t", "h">>,
      <<"t", "h", "i", "s", " ", "y", "e", "a", "r">>,
      <<"l", "a", "s", "t", " ", "y", "e", "a", "r">>,
      <<"S", "e", "p", "t">>,
      <<"f", "e", "b">>,
      <<"d", "e", "c", "e", "m", "b", "e", "r">>,
      <<"j", "a", "n", "u", "a", "r", "y">>,
      <<"m", "a", "y", "b", "e">>,
      <<"2", "0", "2", "2", " ", "r", "e", "p", "o", "r", "t">>,
      <<"2", "0", "2", "4">>,
      <<"n", "o", " ", "d", "a", "t", "e", " ", "h", "e", "r", "e">> }

\* ' '.join(frags)
RECURSIVE Join(_)
Join(frags) ==
    IF Len(frags) = 0 THEN <<>>
    ELSE IF Len(frags) = 1 THEN frags[1]
    ELSE frags[1] \o <<" ">> \o Join(Tail(frags))

Queries ==
    { StrQuery(Join(f)) : f \in UNION { [1..n -> Vocabulary] : n \in 1..MaxFrags } }
        \cup { NoneQuery }

NowValues ==
    { [year |-> 2024, month |-> 1, day |-> 15],
      [year |-> 2024, month |-> 3, day |-> 31],
      [year |-> 2023, month |-> 12, day |-> 5] }

Machines ==
    { <<"M", "C", "_", "P", "R", "E", "S", "S", "_", "1", "3", "3">>,
      <<"M", "1">> }

\* what the variables of the other activity hold while one is modelled
NoSource == [columns |-> <<>>, records |-> <<>>]

NoQuery == [year |-> 0, month |-> 0, day |-> 0]

\* no outcome of a backend, and no value
NoOutcome == [kind |-> "none"]
NoValue == [t |-> "unset"]

\* the variables of process_chat_query while no chat request is modelled
ChatIdle ==
    /\ cpc = "idle"
    /\ machine_data = EmptyDict
    /\ calls = <<>>
    /\ caller = "none"
    /\ lpc = "idle"
    /\ attempts = <<>>
    /\ outcome = NoOutcome
    /\ llama_ret = NoValue
    /\ analysis = NoValue
    /\ response_text = NoValue
    /\ charts = <<>>
    /\ result = EmptyDict

\* the variables of get_specific_file_data while no query is resolved
FetchIdle ==
    /\ pc = "idle"
    /\ query = NoneQuery
    /\ machine = <<>>
    /\ now = NoQuery
    /\ month_year = Raised
    /\ date_start = <<>>
    /\ date_end = <<>>
    /\ issued = <<>>

\* the variables of the load of one table while none is loaded
DataIdle ==
    /\ backend = "none"
    /\ dpc = "idle"
    /\ source = NoSource
    /\ frame = DataFrame(<<>>, <<>>)
    /\ cleaned = DataFrame(<<>>, <<>>)
    /\ combined_data = DataFrame(<<>>, <<>>)
    /\ file_summary = EmptyDict
    /\ machine_summary = EmptyDict
    /\ resummary = EmptyDict

\* the attribute of the chart generator before any request has set it
Unset == [set |-> FALSE, value |-> <<>>]

\* the variables of the chart requests while none is modelled
GeneratorIdle ==
    /\ self_machine_name = Unset
    /\ rpc = <<>>
    /\ request_machine = <<>>
    /\ oee_title = <<>>
    /\ oee_description = <<>>

\* the variables of get_machine_data while no directory is loaded
LoadIdle ==
    /\ fpc = [at |-> "idle", file |-> 0]
    /\ csv_files = <<>>
    /\ data_files = <<>>
    /\ all_data_frames = <<>>

---------------------------------------------------------------------------
(* get_specific_file_data as a sequence of steps *)

Init ==
    /\ pc = "call"
    /\ query \in Queries
    /\ machine \in Machines
    /\ now \in NowValues
    /\ month_year = Raised
    /\ date_start = <<>>
    /\ date_end = <<>>
    /\ issued = <<>>
    /\ backend = "none"
    /\ dpc = "idle"
    /\ source = NoSource
    /\ frame = DataFrame(<<>>, <<>>)
    /\ cleaned = DataFrame(<<>>, <<>>)
    /\ combined_data = DataFrame(<<>>, <<>>)
    /\ file_summary = EmptyDict
    /\ machine_summary = EmptyDict
    /\ resummary = EmptyDict
    /\ ChatIdle
    /\ GeneratorIdle
    /\ LoadIdle

\* month_year = self._extract_date_from_query(query); an exception leaves
\* through the except clause of get_specific_file_data, which returns {}
ExtractDate ==
    /\ pc = "call"
    /\ month_year' = _extract_date_from_query(query, now)
    /\ pc' = IF month_year'.raised THEN "failed" ELSE "resolved"
    /\ UNCHANGED <<query, machine, now, date_start, date_end, issued, data_vars, chat_vars, extra_vars>>

\* month, year = month_year; date_start = ...; date_end = ...
ExpandWindow ==
    /\ pc = "resolved"
    /\ date_start' = DateStart(month_year)
    /\ date_end' = DateEnd(month_year)
    /\ pc' = "window"
    /\ UNCHANGED <<query, machine, now, month_year, issued, data_vars, chat_vars, extra_vars>>

\* filter_expr = f"..."; entities = list(table_client.query_entities(filter_expr))
QueryEntities ==
    /\ pc = "window"
    /\ issued' = Append(issued, FilterExpr(machine, date_start, date_end))
    /\ pc' = "queried"
    /\ UNCHANGED <<query, machine, now, month_year, date_start, date_end, data_vars, chat_vars, extra_vars>>

Next == ExtractDate \/ ExpandWindow \/ QueryEntities

Spec == Init /\ [][Next]_vars

---------------------------------------------------------------------------
(* Tables that are loaded *)

MaxRows == 2

JanText == Text(<<"2", "0", "2", "4", "-", "0", "1", "-", "3", "1">>)
FebText == Text(<<"2", "0", "2", "4", "-", "0", "2", "-", "1", "0">>)
BadDateText == Text(<<"2", "0", "2", "4", "-", "0", "1", "-", "1", "x">>)

\* each schema: the column labels and the rows a source of that schema holds
Schemas ==
    { [columns |-> <<"Ai_partcount", "total_part_reject">>,
       records |->
         { ("Ai_partcount" :> a) @@ ("total_part_reject" :> r) :
             a \in {Null, Num(0), Num(2), Text(<<"x">>)},
             r \in {Null, Num(1), Num(3), Num(0 - 1)} }],
      [columns |-> <<"date", "Ai_partcount", "avg_oee", "avg_total_energy">>,
       records |->
         { ("date" :> d) @@ ("Ai_partcount" :> a) @@ ("avg_oee" :> Num(50))
             @@ ("avg_total_energy" :> e) :
             d \in {Null, JanText, FebText, BadDateText},
             a \in {Null, Num(2)},
             e \in {Null, Num(5)} }],
      [columns |-> <<"date", "Ai_partcount", "avg_oee", "avg_total_energy", "energyCost">>,
       records |->
         { ("date" :> d) @@ ("Ai_partcount" :> a) @@ ("avg_oee" :> Num(50))
             @@ ("avg_total_energy" :> e) @@ ("energyCost" :> Num(1)) :
             d \in {Null, JanText, FebText, BadDateText},
             a \in {Null, Num(2)},
             e \in {Null, Num(5)} }],
      [columns |-> <<"date", "Ai_partcount", "total_part_reject">>,
       records |->
         { ("date" :> d) @@ ("Ai_partcount" :> a) @@ ("total_part_reject" :> r) :
             d \in {Null, JanText},
             a \in {Null, Num(0), Num(2)},
             r \in {Null, Num(1), Num(3)} }],
      [columns |-> <<"date", "shiftName", "Ai_partcount">>,
       records |->
         { ("date" :> d) @@ ("shiftName" :> s) @@ ("Ai_partcount" :> a) :
             d \in {Null, JanText, BadDateText},
             s \in {Null, Text(<<"S", "H", "1">>)},
             a \in {Null, Num(2), Text(<<"3">>)} }] }

Sources ==
    UNION { { [columns |-> schema.columns, records |-> records] :
                records \in UNION { [1..n -> schema.records] : n \in 0..MaxRows } } :
            schema \in Schemas }

---------------------------------------------------------------------------
(* The load of one table: get_machine_data for one CSV file of the machine
   directory, get_specific_file_data for the entities of the table query *)

InitData ==
    /\ pc = "idle"
    /\ query = NoneQuery
    /\ machine = <<>>
    /\ now = NoQuery
    /\ month_year = Raised
    /\ date_start = <<>>
    /\ date_end = <<>>
    /\ issued = <<>>
    /\ backend \in {"file", "table"}
    /\ dpc = "loaded"
    /\ source \in Sources
    /\ frame = DataFrame(source.columns, source.records)
    /\ cleaned = DataFrame(<<>>, <<>>)
    /\ combined_data = DataFrame(<<>>, <<>>)
    /\ file_summary = EmptyDict
    /\ machine_summary = EmptyDict
    /\ resummary = EmptyDict
    /\ ChatIdle
    /\ GeneratorIdle
    /\ LoadIdle

\* get_machine_data: df = self.clean_dataframe(df)
CleanFile ==
    /\ backend = "file"
    /\ dpc = "loaded"
    /\ LET r == clean_dataframe(frame)
       IN frame' = r.arg /\ cleaned' = r.ret
    /\ dpc' = "cleaned"
    /\ UNCHANGED <<extra_vars, chat_vars, fetch_vars, backend, source, combined_data, file_summary, machine_summary,
                   resummary>>

\* get_specific_file_data and sam_get_machine_data_from_table:
\* if not rows: return {}
NoRows ==
    /\ backend \in {"table", "machine_table"}
    /\ dpc = "loaded"
    /\ source.records = <<>>
    /\ dpc' = "empty"
    /\ UNCHANGED <<extra_vars, chat_vars, fetch_vars, backend, source, frame, cleaned, combined_data,
                   file_summary, machine_summary, resummary>>

\* get_specific_file_data: df = self.sam_clean_dataframe(df)
CleanTable ==
    /\ backend = "table"
    /\ dpc = "loaded"
    /\ source.records # <<>>
    /\ LET r == sam_clean_dataframe(frame)
       IN frame' = r.arg /\ cleaned' = r.ret
    /\ dpc' = "cleaned"
    /\ UNCHANGED <<extra_vars, chat_vars, fetch_vars, backend, source, combined_data, file_summary, machine_summary,
                   resummary>>

\* 'summary': self.get_file_summary(df), in get_machine_data and in
\* get_specific_file_data
FileSummary ==
    /\ backend \in {"file", "table"}
    /\ dpc = "cleaned"
    /\ file_summary' = get_file_summary(cleaned)
    /\ dpc' = "summarized"
    /\ UNCHANGED <<extra_vars, chat_vars, fetch_vars, backend, source, frame, cleaned, combined_data, machine_summary,
                   resummary>>

\* get_machine_data: data['combined_data'] = pd.concat(all_data_frames,
\* ignore_index=True); data['summary'] = self.get_machine_summary(...)
MachineSummaryFile ==
    /\ backend = "file"
    /\ dpc = "summarized"
    /\ LET r == summarize(concat(cleaned), "file")
       IN combined_data' = r.arg /\ machine_summary' = r.ret
    /\ dpc' = "done"
    /\ UNCHANGED <<extra_vars, chat_vars, fetch_vars, backend, source, frame, cleaned, file_summary, resummary>>

\* get_specific_file_data: 'combined_data': df,
\* 'summary': self.sam_get_machine_summary(df)
MachineSummaryTable ==
    /\ backend = "table"
    /\ dpc = "summarized"
    /\ LET r == summarize(cleaned, "table")
       IN combined_data' = r.arg /\ machine_summary' = r.ret
    /\ dpc' = "done"
    /\ UNCHANGED <<extra_vars, chat_vars, fetch_vars, backend, source, frame, cleaned, file_summary, resummary>>

\* the summary operation of the load is run once more on data['combined_data']
Resummarize ==
    /\ dpc = "done"
    /\ LET r == summarize(combined_data, backend)
       IN combined_data' = r.arg /\ resummary' = r.ret
    /\ dpc' = "again"
    /\ UNCHANGED <<extra_vars, chat_vars, fetch_vars, backend, source, frame, cleaned, file_summary, machine_summary>>

NextData ==
    \/ CleanFile
    \/ NoRows
    \/ CleanTable
    \/ FileSummary
    \/ MachineSummaryFile
    \/ MachineSummaryTable
    \/ Resummarize

SpecData == InitData /\ [][NextData]_vars

---------------------------------------------------------------------------
(* The three ingestion paths on tables with status, maintenance and
   undeclared columns: get_machine_data (one CSV file), get_specific_file_data
   and sam_get_machine_data_from_table *)

RunningText == Text(<<"R", "u", "n">>)
ShiftText == Text(<<"S", "H", "1">>)

IngestSchemas ==
    { [columns |-> <<"Ai_partcount", "Maintenance Flag">>,
       records |->
         { ("Ai_partcount" :> Num(2)) @@ ("Maintenance Flag" :> f) :
             f \in {Bool(TRUE), Bool(FALSE), Num(1), Num(0), Null, Text(<<"Y">>)} }],
      [columns |-> <<"date", "Ai_partcount", "avg_oee", "avg_total_energy", "energyCost",
                     "Machine Status", "Maintenance Flag", "shiftName">>,
       records |->
         { ("date" :> d) @@ ("Ai_partcount" :> Num(2)) @@ ("avg_oee" :> Num(50))
             @@ ("avg_total_energy" :> Num(5)) @@ ("energyCost" :> Num(1))
             @@ ("Machine Status" :> RunningText) @@ ("Maintenance Flag" :> f)
             @@ ("shiftName" :> ShiftText) :
             d \in {Null, JanText},
             f \in {Bool(TRUE), Num(1)} }],
      [columns |-> <<"Ai_partcount", "Machine Status", "shiftName">>,
       records |->
         { ("Ai_partcount" :> a) @@ ("Machine Status" :> RunningText)
             @@ ("shiftName" :> ShiftText) :
             a \in {Num(2), Text(<<"x">>)} }] }

\* no row, one row, two rows
IngestRows(schema) ==
    {<<>>} \cup { <<a>> : a \in schema.records }
           \cup { <<a, b>> : a \in schema.records, b \in schema.records }

IngestSources ==
    UNION { { [columns |-> schema.columns, records |-> records] :
                records \in IngestRows(schema) } :
            schema \in IngestSchemas }

InitIngest ==
    /\ FetchIdle
    /\ ChatIdle
    /\ GeneratorIdle
    /\ LoadIdle
    /\ backend \in {"file", "table", "machine_table"}
    /\ dpc = "loaded"
    /\ source \in IngestSources
    /\ frame = DataFrame(source.columns, source.records)
    /\ cleaned = DataFrame(<<>>, <<>>)
    /\ combined_data = DataFrame(<<>>, <<>>)
    /\ file_summary = EmptyDict
    /\ machine_summary = EmptyDict
    /\ resummary = EmptyDict

\* sam_get_machine_data_from_table: df = self.clean_dataframe(df)
CleanMachineTable ==
    /\ backend = "machine_table"
    /\ dpc = "loaded"
    /\ source.records # <<>>
    /\ LET r == clean_dataframe(frame)
       IN frame' = r.arg /\ cleaned' = r.ret
    /\ dpc' = "cleaned"
    /\ UNCHANGED <<extra_vars, chat_vars, fetch_vars, backend, source, combined_data,
                   file_summary, machine_summary, resummary>>

\* sam_get_machine_data_from_table: 'summary': self.sam_get_file_summary(df)
FileSummaryMachineTable ==
    /\ backend = "machine_table"
    /\ dpc = "cleaned"
    /\ file_summary' = sam_get_file_summary(cleaned)
    /\ dpc' = "summarized"
    /\ UNCHANGED <<extra_vars, chat_vars, fetch_vars, backend, source, frame, cleaned,
                   combined_data, machine_summary, resummary>>

\* sam_get_machine_data_from_table: 'combined_data': df,
\* 'summary': self.get_machine_summary(df)
MachineSummaryMachineTable ==
    /\ backend = "machine_table"
    /\ dpc = "summarized"
    /\ LET r == summarize(cleaned, "file")
       IN combined_data' = r.arg /\ machine_summary' = r.ret
    /\ dpc' = "done"
    /\ UNCHANGED <<extra_vars, chat_vars, fetch_vars, backend, source, frame, cleaned,
                   file_summary, resummary>>

NextIngest ==
    \/ CleanFile
    \/ NoRows
    \/ CleanTable
    \/ CleanMachineTable
    \/ FileSummary
    \/ FileSummaryMachineTable
    \/ MachineSummaryFile
    \/ MachineSummaryTable
    \/ MachineSummaryMachineTable

SpecIngest == InitIngest /\ [][NextIngest]_vars

---------------------------------------------------------------------------
(* Properties of the query date resolver and of the window it is expanded to *)

Resolved == pc \in {"resolved", "window", "queried"}

QueryLower == lower(query.s)

HasThisMonth == query.isstr /\ Contains(ThisMonth, QueryLower)
HasLastMonth == query.isstr /\ Contains(LastMonth, QueryLower)
HasThisYear  == query.isstr /\ Contains(ThisYear, QueryLower)
HasLastYear  == query.isstr /\ Contains(LastYear, QueryLower)

NoRelativePhrase ==
    query.isstr /\ ~HasThisMonth /\ ~HasLastMonth /\ ~HasThisYear /\ ~HasLastYear

IsYearText(t) ==
    /\ Len(t) = 4
    /\ t[1] = "2"
    /\ t[2] = "0"
    /\ t[3] \in {"0", "1", "2", "3", "4", "5", "6", "7", "8", "9"}
    /\ t[4] \in {"0", "1", "2", "3", "4", "5", "6", "7", "8", "9"}

IsFourDigits(t) ==
    /\ Len(t) = 4
    /\ \A i \in 1..4 : t[i] \in {"0", "1", "2", "3", "4", "5", "6", "7", "8", "9"}

\* the words of s: its maximal runs of letters, digits and underscores
WordsOf(s) ==
    LET inword == [k \in 1..Len(s) |-> IsWordChar(s[k])]
        starts == { i \in 1..Len(s) : inword[i] /\ (i = 1 \/ ~inword[i - 1]) }
        ends == { j \in 1..Len(s) : inword[j] /\ (j = Len(s) \/ ~inword[j + 1]) }
    IN { SubSeq(s, i, CHOOSE j \in ends : j >= i /\ \A k \in ends : k >= i => j <= k) :
           i \in starts }

\* the month numbers whose name or abbreviation is a word of s
MonthsNamedIn(s) ==
    LET words == WordsOf(s)
    IN { months[i].value : i \in { j \in 1..Len(months) : months[j].key \in words } }

\* t is the leftmost substring of s of the form 20dd
IsFirstYearOf(t, s) ==
    \E i \in 1..Len(s) :
        /\ i + 3 <= Len(s)
        /\ SubSeq(s, i, i + 3) = t
        /\ IsYearText(t)
        /\ \A j \in 1..(i - 1) : ~IsYearText(SubSeq(s, j, j + 3))

HasYearText(s) == \E i \in 1..Len(s) : i + 3 <= Len(s) /\ IsYearText(SubSeq(s, i, i + 3))

\* C3: _extract_date_from_query never fails: whatever the query and the
\* current time, once it has been called it has returned a month in 1..12
\* and a year that is a string of four digits, its except branch included.
C3_NeverFails ==
    pc \in {"resolved", "window", "queried", "failed"} =>
        /\ ~month_year.raised
        /\ month_year.month \in 1..12
        /\ IsFourDigits(month_year.year)

\* C4: a query that contains "last month" and not "this month" resolves to
\* the month and year one calendar month before now; in January that is
\* December of the year before.
C4_LastMonth ==
    (pc # "call" /\ HasLastMonth /\ ~HasThisMonth) =>
        /\ ~month_year.raised
        /\ month_year.month = (IF now.month = 1 THEN 12 ELSE now.month - 1)
        /\ IsFourDigits(month_year.year)
        /\ int(month_year.year) = (IF now.month = 1 THEN now.year - 1 ELSE now.year)

C4_Witness ==
    /\ pc = "resolved"
    /\ HasLastMonth /\ ~HasThisMonth
    /\ now = [year |-> 2024, month |-> 1, day |-> 15]
    /\ month_year.month = 12
    /\ month_year.year = <<"2", "0", "2", "3">>

\* C5: a query with none of the four relative phrases resolves to the
\* number of a month whose name or abbreviation is a whole word of the
\* lowercased query, or to 1 when there is no such word; and to the leftmost
\* 20dd substring as year, or to now.year when there is none.
C5_ExplicitDate ==
    (pc # "call" /\ NoRelativePhrase) =>
        /\ ~month_year.raised
        /\ IF MonthsNamedIn(QueryLower) # {}
           THEN month_year.month \in MonthsNamedIn(QueryLower)
           ELSE month_year.month = 1
        /\ IF HasYearText(QueryLower)
           THEN IsFirstYearOf(month_year.year, QueryLower)
           ELSE IsFourDigits(month_year.year) /\ int(month_year.year) = now.year

C5_Witness ==
    /\ pc = "resolved"
    /\ query.s = <<"S", "e", "p", "t", " ", "2", "0", "2", "2", " ",
                   "r", "e", "p", "o", "r", "t">>
    /\ month_year.month = 9
    /\ month_year.year = <<"2", "0", "2", "2">>

\* C6: the relative phrases are tested in the order "this month", "last
\* month", "this year", "last year" and the first one present decides the
\* result, whatever month name or 20dd year the query also holds.
C6_RelativeOrder ==
    (pc # "call" /\ query.isstr) =>
        /\ HasThisMonth =>
             /\ month_year.month = now.month
             /\ int(month_year.year) = now.year
        /\ (~HasThisMonth /\ HasLastMonth) =>
             /\ month_year.month = (IF now.month = 1 THEN 12 ELSE now.month - 1)
             /\ int(month_year.year) = (IF now.month = 1 THEN now.year - 1 ELSE now.year)
        /\ (~HasThisMonth /\ ~HasLastMonth /\ HasThisYear) =>
             /\ month_year.month = 1
             /\ int(month_year.year) = now.year
        /\ (~HasThisMonth /\ ~HasLastMonth /\ ~HasThisYear /\ HasLastYear) =>
             /\ month_year.month = 1
             /\ int(month_year.year) = now.year - 1
        /\ (HasThisMonth \/ HasLastMonth \/ HasThisYear \/ HasLastYear) =>
             /\ ~month_year.raised
             /\ IsFourDigits(month_year.year)

\* "this year" comes first in the text and "last month" decides
C6_Witness ==
    /\ pc = "resolved"
    /\ query.s = <<"t", "h", "i", "s", " ", "y", "e", "a", "r", " ",
                   "L", "a", "s", "t", " ", "m", "o", "n", "t", "h">>
    /\ now.month = 3
    /\ month_year.month = 2
    /\ month_year.year = <<"2", "0", "2", "4">>

\* the days of a month: thirty for April, June, September and November,
\* twenty-eight for February and twenty-nine in a leap year, else thirty-one
DaysOfMonth(y, m) ==
    IF m = 2
    THEN IF (y % 4 = 0 /\ y % 100 # 0) \/ y % 400 = 0 THEN 29 ELSE 28
    ELSE IF m \in {4, 6, 9, 11} THEN 30 ELSE 31

IsIsoDate(s) ==
    /\ Len(s) = 10
    /\ s[5] = "-"
    /\ s[8] = "-"
    /\ \A i \in {1, 2, 3, 4, 6, 7, 9, 10} : IsDigit(s[i])

YearOf(s) == int(SubSeq(s, 1, 4))
MonthOf(s) == int(SubSeq(s, 6, 7))
DayOf(s) == int(SubSeq(s, 9, 10))

\* C7: the resolved (month, year) is expanded to a window that starts on
\* day 1 of that month and ends on the last day of the same month (29 for
\* February of a leap year, 28 otherwise), so that start <= end and both
\* bounds lie in the resolved month and year.
C7_Window ==
    pc \in {"window", "queried"} =>
        /\ IsIsoDate(date_start)
        /\ IsIsoDate(date_end)
        /\ YearOf(date_start) = int(month_year.year)
        /\ YearOf(date_end) = int(month_year.year)
        /\ MonthOf(date_start) = month_year.month
        /\ MonthOf(date_end) = month_year.month
        /\ DayOf(date_start) = 1
        /\ DayOf(date_end) = DaysOfMonth(int(month_year.year), month_year.month)
        /\ DayOf(date_start) <= DayOf(date_end)

C7_Witness ==
    /\ pc = "window"
    /\ month_year.month = 2
    /\ month_year.year = <<"2", "0", "2", "4">>
    /\ date_start = <<"2", "0", "2", "4", "-", "0", "2", "-", "0", "1">>
    /\ date_end = <<"2", "0", "2", "4", "-", "0", "2", "-", "2", "9">>

\* C8: every filter handed to the table query is exactly
\* device_name eq '<machine>' and date ge '<start>' and date le '<end>'
\* with the requested machine and the window bounds as YYYY-MM-DD.
C8_Filter ==
    /\ Len(issued) <= 1
    /\ pc = "queried" => Len(issued) = 1
    /\ \A i \in 1..Len(issued) :
        /\ IsIsoDate(date_start)
        /\ IsIsoDate(date_end)
        /\ issued[i] =
             <<"d", "e", "v", "i", "c", "e", "_", "n", "a", "m", "e", " ", "e", "q", " ", "'">>
             \o machine
             \o <<"'", " ", "a", "n", "d", " ", "d", "a", "t", "e", " ", "g", "e", " ", "'">>
             \o date_start
             \o <<"'", " ", "a", "n", "d", " ", "d", "a", "t", "e", " ", "l", "e", " ", "'">>
             \o date_end
             \o <<"'">>

C8_Witness ==
    /\ pc = "queried"
    /\ machine = <<"M", "1">>
    /\ issued = << <<"d", "e", "v", "i", "c", "e", "_", "n", "a", "m", "e", " ", "e", "q", " ",
                     "'", "M", "1", "'", " ", "a", "n", "d", " ", "d", "a", "t", "e", " ",
                     "g", "e", " ", "'", "2", "0", "2", "2", "-", "0", "9", "-", "0", "1",
                     "'", " ", "a", "n", "d", " ", "d", "a", "t", "e", " ", "l", "e", " ",
                     "'", "2", "0", "2", "2", "-", "0", "9", "-", "3", "0", "'">> >>

---------------------------------------------------------------------------
(* Properties of the summaries and of the normalizers *)

FileSummarized == dpc \in {"summarized", "done"}

\* the sums the quality rate is defined from, over the table that is summarized
Produced(df) ==
    IF HasColumn(df, "Ai_partcount") THEN SumCells(Column(df.rows, "Ai_partcount")) ELSE 0

Rejected(df) ==
    IF HasColumn(df, "total_part_reject")
    THEN SumCells(Column(df.rows, "total_part_reject")) ELSE 0

\* the fraction q is the ratio num / den, for den > 0
IsRatio(q, num, den) == q.d > 0 /\ q.n * den = num * q.d

\* C1: for every table whose total parts produced is 0, the file summary has
\* quality_rate 0, and so has the machine summary built on it by
\* get_machine_summary and by sam_get_machine_summary.
C1_ZeroQuality ==
    /\ (FileSummarized /\ Produced(cleaned) = 0) =>
          /\ "quality_rate" \in DOMAIN file_summary
          /\ file_summary["quality_rate"] = [n |-> 0, d |-> 1]
    /\ (dpc = "done" /\ Produced(combined_data) = 0) =>
          /\ "quality_rate" \in DOMAIN machine_summary
          /\ machine_summary["quality_rate"] = [n |-> 0, d |-> 1]

\* C2 as stated: for all tables the quality_rate of get_file_summary is at
\* most 100, and it is (produced - rejected) / produced * 100 when produced > 0.
C2_Original ==
    FileSummarized =>
        LET q == file_summary["quality_rate"]
            p == Produced(cleaned)
            r == Rejected(cleaned)
        IN /\ q.d > 0
           /\ q.n <= 100 * q.d
           /\ p > 0 => IsRatio(q, (p - r) * 100, p)

\* C2: the quality_rate of get_file_summary is exactly
\* (produced - rejected) / produced * 100 whenever produced > 0 and 0
\* otherwise; it is at most 100 whenever rejected >= 0, and above 100 when
\* produced > 0 and rejected < 0.
C2_QualityRate ==
    FileSummarized =>
        LET q == file_summary["quality_rate"]
            p == Produced(cleaned)
            r == Rejected(cleaned)
        IN /\ q.d > 0
           /\ p > 0 => IsRatio(q, (p - r) * 100, p)
           /\ p <= 0 => q = [n |-> 0, d |-> 1]
           /\ r >= 0 => q.n <= 100 * q.d
           /\ (p > 0 /\ r < 0) => q.n > 100 * q.d

\* four parts produced over two rows, one rejected: the rate is 75
C2_Witness ==
    /\ dpc = "summarized"
    /\ Len(cleaned.rows) = 2
    /\ Produced(cleaned) = 4
    /\ Rejected(cleaned) = 1
    /\ file_summary["quality_rate"] = [n |-> 75, d |-> 1]

\* the rows of df whose date is not null, and the rows whose date is null
DatedRows(df) == SelectSeq(df.rows, LAMBDA r : r.cells["date"].t = "date")
UndatedRows(df) == SelectSeq(df.rows, LAMBDA r : r.cells["date"].t # "date")

\* the calendar month a row falls in, and the one a key YYYY-MM names
MonthOfRow(r) == <<r.cells["date"].year, r.cells["date"].month>>
MonthOfKey(key) ==
    <<DigitVal(key[1]) * 1000 + DigitVal(key[2]) * 100 + DigitVal(key[3]) * 10
          + DigitVal(key[4]),
      DigitVal(key[6]) * 10 + DigitVal(key[7])>>

\* the sum over the keys of a breakdown of one of its fields
RECURSIVE SumOfMonths(_, _, _)
SumOfMonths(breakdown, keys, field) ==
    IF keys = {} THEN 0
    ELSE LET key == CHOOSE k \in keys : TRUE
         IN breakdown[key][field] + SumOfMonths(breakdown, keys \ {key}, field)

\* the sum of one column over some rows, nulls counting 0
SumOfRows(rows, col) == SumCells(Column(rows, col))

HasBreakdown == dpc = "done" /\ "monthly_breakdown" \in DOMAIN machine_summary

\* every dated row is under exactly one key, and every key's sums are those
\* of the rows of its month
MonthsPartitionRows ==
    LET breakdown == machine_summary["monthly_breakdown"]
        rows == DatedRows(combined_data)
    IN /\ \A i \in 1..Len(rows) :
            Cardinality({ k \in DOMAIN breakdown : MonthOfKey(k) = MonthOfRow(rows[i]) }) = 1
       /\ \A k \in DOMAIN breakdown :
            LET mine == SelectSeq(rows, LAMBDA r : MonthOfRow(r) = MonthOfKey(k))
            IN /\ mine # <<>>
               /\ breakdown[k]["Ai_partcount"] = SumOfRows(mine, "Ai_partcount")
               /\ breakdown[k]["avg_total_energy"] = SumOfRows(mine, "avg_total_energy")

\* C9 as stated: the months partition the dated rows, and the per-month sums
\* of Ai_partcount and avg_total_energy add up to total_parts_produced and
\* total_energy of the same summary.
C9_Original ==
    HasBreakdown =>
        LET breakdown == machine_summary["monthly_breakdown"]
        IN /\ MonthsPartitionRows
           /\ SumOfMonths(breakdown, DOMAIN breakdown, "Ai_partcount")
                = machine_summary["total_parts_produced"]
           /\ SumOfMonths(breakdown, DOMAIN breakdown, "avg_total_energy")
                = machine_summary["total_energy"]

\* C9: in a monthly_breakdown every row with a non-null date is counted under
\* exactly one month key, and for Ai_partcount and avg_total_energy the
\* per-month sums add up to the summary's table-wide total less what the
\* rows with a null date contribute to that total.
C9_MonthlyPartition ==
    HasBreakdown =>
        LET breakdown == machine_summary["monthly_breakdown"]
            undated == UndatedRows(combined_data)
        IN /\ MonthsPartitionRows
           /\ SumOfMonths(breakdown, DOMAIN breakdown, "Ai_partcount")
                = machine_summary["total_parts_produced"]
                    - SumOfRows(undated, "Ai_partcount")
           /\ SumOfMonths(breakdown, DOMAIN breakdown, "avg_total_energy")
                = machine_summary["total_energy"]
                    - SumOfRows(undated, "avg_total_energy")

\* a January row and a February row, two parts each
C9_Witness ==
    /\ HasBreakdown
    /\ DOMAIN machine_summary["monthly_breakdown"]
         = { <<"2", "0", "2", "4", "-", "0", "1">>, <<"2", "0", "2", "4", "-", "0", "2">> }
    /\ machine_summary["monthly_breakdown"][<<"2", "0", "2", "4", "-", "0", "1">>]["Ai_partcount"] = 2
    /\ machine_summary["monthly_breakdown"][<<"2", "0", "2", "4", "-", "0", "2">>]["Ai_partcount"] = 2
    /\ machine_summary["total_parts_produced"] = 4

\* C10: of the rows handed to clean_dataframe or sam_clean_dataframe, one
\* whose fields are all null is not in the result and one with exactly one
\* non-null field is, whichever column holds it.
C10_Normalizer ==
    dpc \in {"cleaned", "summarized", "done"} =>
        \A i \in 1..Len(source.records) :
            LET record == source.records[i]
                nonnull == { c \in DOMAIN record : ~isna(record[c]) }
                kept == \E j \in 1..Len(cleaned.rows) : cleaned.rows[j].index = i - 1
            IN /\ nonnull = {} => ~kept
               /\ Cardinality(nonnull) = 1 => kept

ZeroWhenAbsent(summary, df, col, field, zero) ==
    ~HasColumn(df, col) => (field \in DOMAIN summary /\ summary[field] = zero)

\* C14: for every normalized table the machine summary has total_records
\* equal to the number of rows, and total_parts_produced, total_parts_rejected,
\* average_oee and total_energy equal to 0 when their column is absent.
C14_RecordsAndZeros ==
    dpc = "done" =>
        /\ "total_records" \in DOMAIN machine_summary
        /\ machine_summary["total_records"] = Len(combined_data.rows)
        /\ ZeroWhenAbsent(machine_summary, combined_data, "Ai_partcount",
                          "total_parts_produced", 0)
        /\ ZeroWhenAbsent(machine_summary, combined_data, "total_part_reject",
                          "total_parts_rejected", 0)
        /\ ZeroWhenAbsent(machine_summary, combined_data, "avg_oee",
                          "average_oee", [n |-> 0, d |-> 1])
        /\ ZeroWhenAbsent(machine_summary, combined_data, "avg_total_energy",
                          "total_energy", 0)

---------------------------------------------------------------------------
(* JSON, as the language client uses it (src/llama_client.py): the values
   json.loads returns and json.dumps takes, the text of json.dumps with and
   without indent, and json.loads of a text.  Strings hold no quote, no
   backslash and no character outside ASCII; numbers are integers. *)

\* a Python string from its literal
Chars(literal) == [i \in 1..Len(literal) |-> SubSeq(literal, i, i)]

JNull == [t |-> "null"]
JBool(b) == [t |-> "bool", b |-> b]
JInt(n) == [t |-> "int", n |-> n]
JStr(s) == [t |-> "str", s |-> s]
JArr(items) == [t |-> "list", items |-> items]
\* a dict: its items in insertion order, each a key and a value
JObj(items) == [t |-> "dict", items |-> items]
Item(key, value) == [k |-> Chars(key), v |-> value]

\* key in d, d.get(key, default) and d[key] of a dict
HasKey(d, key) == \E i \in 1..Len(d.items) : d.items[i].k = Chars(key)
Get(d, key, default) ==
    IF HasKey(d, key)
    THEN d.items[CHOOSE i \in 1..Len(d.items) : d.items[i].k = Chars(key)].v
    ELSE default

\* d[key] = value while a dict is built: a key met again keeps its place
SetItem(items, key, value) ==
    IF \E i \in 1..Len(items) : items[i].k = key
    THEN [i \in 1..Len(items) |->
            IF items[i].k = key THEN [k |-> key, v |-> value] ELSE items[i]]
    ELSE Append(items, [k |-> key, v |-> value])

\* the line break and padding json.dumps puts before an item at a depth
Pad(indent, depth) ==
    IF indent < 0 THEN <<>>
    ELSE <<"\n">> \o [i \in 1..(indent * depth) |-> " "]

ItemSeparator(indent) == IF indent < 0 THEN <<",", " ">> ELSE <<",">>

\* json.dumps(value, indent=indent) at a nesting depth; indent < 0 is None
RECURSIVE dumps_at(_, _, _)
RECURSIVE dumps_items(_, _, _, _)
dumps_items(items, isdict, indent, depth) ==
    IF items = <<>> THEN <<>>
    ELSE LET first == Head(items)
             text == IF isdict
                     THEN <<"\"">> \o first.k \o <<"\"", ":", " ">>
                              \o dumps_at(first.v, indent, depth)
                     ELSE dumps_at(first, indent, depth)
         IN Pad(indent, depth) \o text
              \o (IF Len(items) > 1 THEN ItemSeparator(indent) ELSE <<>>)
              \o dumps_items(Tail(items), isdict, indent, depth)

dumps_at(value, indent, depth) ==
    CASE value.t = "null" -> Chars("null")
      [] value.t = "bool" -> IF value.b THEN Chars("true") ELSE Chars("false")
      [] value.t = "int" -> str(value.n)
      [] value.t = "str" -> <<"\"">> \o value.s \o <<"\"">>
      [] value.t = "list" ->
            IF value.items = <<>> THEN Chars("[]")
            ELSE <<"[">> \o dumps_items(value.items, FALSE, indent, depth + 1)
                   \o Pad(indent, depth) \o <<"]">>
      [] value.t = "dict" ->
            IF value.items = <<>> THEN Chars("{}")
            ELSE <<"{">> \o dumps_items(value.items, TRUE, indent, depth + 1)
                   \o Pad(indent, depth) \o <<"}">>

\* json.dumps(value) and json.dumps(value, indent=2)
dumps(value) == dumps_at(value, 0 - 1, 0)
dumps_indent(value, indent) == dumps_at(value, indent, 0)

\* the character at a position, or the empty string past the end
At(s, i) == IF i >= 1 /\ i <= Len(s) THEN s[i] ELSE ""

Least(S) == CHOOSE x \in S : \A y \in S : x <= y

IsWhitespace(c) == c \in {" ", "\n", "\t", "\r"}

\* the first position from i on that holds no whitespace
SkipWhitespace(s, i) ==
    LET stops == { j \in i..Len(s) : ~IsWhitespace(s[j]) }
    IN IF stops = {} THEN Len(s) + 1 ELSE Least(stops)

\* the result of a parsing step: the value and the position after it
Parsed(value, next) == [ok |-> TRUE, v |-> value, next |-> next]
NotParsed == [ok |-> FALSE, v |-> JNull, next |-> 0]

\* a string that starts at the quote at position i
ParseString(s, i) ==
    LET closes == { j \in (i + 1)..Len(s) : s[j] = "\"" }
    IN IF At(s, i) # "\"" \/ closes = {} THEN NotParsed
       ELSE LET close == Least(closes)
                chars == SubSeq(s, i + 1, close - 1)
            IN IF \E k \in 1..Len(chars) : chars[k] \in {"\\", "\n", "\t", "\r"}
               THEN NotParsed
               ELSE Parsed(JStr(chars), close + 1)

\* an integer that starts at position i; a fraction or an exponent after it
\* is not read
ParseNumber(s, i) ==
    LET first == IF At(s, i) = "-" THEN i + 1 ELSE i
        stops == { j \in first..Len(s) : ~IsDigit(s[j]) }
        stop == IF stops = {} THEN Len(s) + 1 ELSE Least(stops)
        end == IF At(s, first) = "0" THEN first + 1 ELSE stop
    IN IF end = first \/ At(s, end) \in {".", "e", "E"} THEN NotParsed
       ELSE Parsed(JInt(IF first = i THEN int(SubSeq(s, first, end - 1))
                        ELSE 0 - int(SubSeq(s, first, end - 1))), end)

RECURSIVE ParseValue(_, _)
RECURSIVE ParseElements(_, _, _)
RECURSIVE ParseMembers(_, _, _)

\* the elements of a list from position i on, acc being those read so far
ParseElements(s, i, acc) ==
    LET element == ParseValue(s, i)
        after == SkipWhitespace(s, element.next)
    IN IF ~element.ok THEN NotParsed
       ELSE IF At(s, after) = "," THEN ParseElements(s, after + 1, Append(acc, element.v))
       ELSE IF At(s, after) = "]" THEN Parsed(JArr(Append(acc, element.v)), after + 1)
       ELSE NotParsed

\* the members of an object from position i on
ParseMembers(s, i, acc) ==
    LET key == ParseString(s, SkipWhitespace(s, i))
        colon == SkipWhitespace(s, key.next)
        member == ParseValue(s, colon + 1)
        after == SkipWhitespace(s, member.next)
    IN IF ~key.ok \/ At(s, colon) # ":" THEN NotParsed
       ELSE IF ~member.ok THEN NotParsed
       ELSE IF At(s, after) = ","
            THEN ParseMembers(s, after + 1, SetItem(acc, key.v.s, member.v))
       ELSE IF At(s, after) = "}"
            THEN Parsed(JObj(SetItem(acc, key.v.s, member.v)), after + 1)
       ELSE NotParsed

ParseValue(s, i) ==
    LET start == SkipWhitespace(s, i)
        c == At(s, start)
    IN CASE c = "{" ->
              IF At(s, SkipWhitespace(s, start + 1)) = "}"
              THEN Parsed(JObj(<<>>), SkipWhitespace(s, start + 1) + 1)
              ELSE ParseMembers(s, start + 1, <<>>)
         [] c = "[" ->
              IF At(s, SkipWhitespace(s, start + 1)) = "]"
              THEN Parsed(JArr(<<>>), SkipWhitespace(s, start + 1) + 1)
              ELSE ParseElements(s, start + 1, <<>>)
         [] c = "\"" -> ParseString(s, start)
         [] c = "-" \/ IsDigit(c) -> ParseNumber(s, start)
         [] MatchAt(Chars("true"), s, start) -> Parsed(JBool(TRUE), start + 4)
         [] MatchAt(Chars("false"), s, start) -> Parsed(JBool(FALSE), start + 5)
         [] MatchAt(Chars("null"), s, start) -> Parsed(JNull, start + 4)
         [] OTHER -> NotParsed

\* json.loads(text): raises when text is None, when no value can be read, and
\* when something other than whitespace follows the value
loads(text) ==
    IF text.t # "str" THEN [raised |-> TRUE, v |-> JNull]
    ELSE LET r == ParseValue(text.s, 1)
         IN IF r.ok /\ SkipWhitespace(text.s, r.next) = Len(text.s) + 1
            THEN [raised |-> FALSE, v |-> r.v]
            ELSE [raised |-> TRUE, v |-> JNull]

---------------------------------------------------------------------------
(* The language client (src/llama_client.py): prompts, the rule-based
   responder and the keyword classifier *)

\* the rupee sign, one character
Rupee == <<"<U+20B9>">>

\* summary.get(key, default)
SummaryGet(summary, key, default) ==
    IF key \in DOMAIN summary THEN summary[key] ELSE default

\* f"{q:.<digits>f}" of a fraction, 'nan' for NaN; a tie is rounded to even
format_f(q, digits) ==
    IF q.d = 0 THEN Chars("nan")
    ELSE LET scaled == Abs(q.n) * Power10(digits)
             down == scaled \div q.d
             rest == scaled % q.d
             rounded == IF 2 * rest > q.d \/ (2 * rest = q.d /\ down % 2 = 1)
                        THEN down + 1 ELSE down
             whole == str(rounded \div Power10(digits))
             fraction == ZeroPad(str(rounded % Power10(digits)), digits)
         IN (IF q.n < 0 THEN <<"-">> ELSE <<>>) \o whole
              \o (IF digits > 0 THEN <<".">> \o fraction ELSE <<>>)

\* analysis_prompt = f"""..."""
analysis_prompt(query_text, machine_name, context) ==
    Chars("\n")
    \o Chars("            Analyze this manufacturing data query and provide a structured response.\n")
    \o Chars("            \n")
    \o Chars("            Machine: ")
    \o machine_name
    \o Chars("\n")
    \o Chars("            Available data: ")
    \o context
    \o Chars("\n")
    \o Chars("            \n")
    \o Chars("            User query: \"")
    \o query_text
    \o Chars("\"\n")
    \o Chars("            \n")
    \o Chars("            Please analyze and respond with JSON format:\n")
    \o Chars("            {\n")
    \o Chars("                \"intent\": \"summary|comparison|trend|specific_metric|report\",\n")
    \o Chars("                \"time_period\": \"specific dates or periods mentioned\",\n")
    \o Chars("                \"metrics\": [\"list of specific metrics requested\"],\n")
    \o Chars("                \"needs_chart\": true/false,\n")
    \o Chars("                \"chart_types\": [\"bar\", \"line\", \"pie\", \"comparison\"],\n")
    \o Chars("                \"analysis_type\": \"descriptive analysis needed\"\n")
    \o Chars("            }\n")
    \o Chars("            ")

\* _prepare_data_context for the data of a load that has files: one
\* "<filename>: <rows> records" per file, joined by ', '
RECURSIVE files_info(_)
files_info(files) ==
    IF files = <<>> THEN <<>>
    ELSE Head(files).filename \o Chars(": ") \o str(Head(files).shape[1])
           \o Chars(" records")
           \o (IF Len(files) > 1 THEN Chars(", ") ELSE <<>>)
           \o files_info(Tail(files))

_prepare_data_context(data) ==
    IF data = EmptyDict \/ "files" \notin DOMAIN data
    THEN Chars("No data available")
    ELSE Chars("Files: ") \o files_info(data["files"])

\* summary_text = f"""..."""
summary_text(summary) ==
    Chars("\n")
    \o Chars("            Total Records: ")
    \o str(SummaryGet(summary, "total_records", 0))
    \o Chars("\n")
    \o Chars("            Parts Produced: ")
    \o str(SummaryGet(summary, "total_parts_produced", 0))
    \o Chars("\n")
    \o Chars("            Parts Rejected: ")
    \o str(SummaryGet(summary, "total_parts_rejected", 0))
    \o Chars("\n")
    \o Chars("            Average OEE: ")
    \o format_f(SummaryGet(summary, "average_oee", Frac(0, 1)), 2)
    \o Chars("%\n")
    \o Chars("            Quality Rate: ")
    \o format_f(SummaryGet(summary, "quality_rate", Frac(0, 1)), 2)
    \o Chars("%\n")
    \o Chars("            Total Energy: ")
    \o format_f(Frac(SummaryGet(summary, "total_energy", 0), 1), 2)
    \o Chars(" KwH\n")
    \o Chars("            Total Cost: ")
    \o Rupee
    \o format_f(Frac(SummaryGet(summary, "total_cost", 0), 1), 2)
    \o Chars("\n")
    \o Chars("            ")

\* _prepare_data_summary.  Sums print as integers here; pandas prints the sum
\* of a float64 column with a trailing .0
_prepare_data_summary(data) ==
    IF data = EmptyDict \/ "summary" \notin DOMAIN data
    THEN Chars("No summary available")
    ELSE summary_text(data["summary"])

\* response_prompt = f"""..."""
response_prompt(query_text, machine_name, analysis_value, data_summary) ==
    Chars("\n")
    \o Chars("            You are a manufacturing data analyst AI assistant. Generate a comprehensive ")
    \o Chars("response to the user's query about machine ")
    \o machine_name
    \o Chars(".\n")
    \o Chars("            \n")
    \o Chars("            User Query: \"")
    \o query_text
    \o Chars("\"\n")
    \o Chars("            \n")
    \o Chars("            Analysis Context: ")
    \o dumps_indent(analysis_value, 2)
    \o Chars("\n")
    \o Chars("            \n")
    \o Chars("            Data Summary: ")
    \o data_summary
    \o Chars("\n")
    \o Chars("            \n")
    \o Chars("            Instructions:\n")
    \o Chars("            1. Provide a clear, professional response\n")
    \o Chars("            2. Include specific numbers and insights from the data\n")
    \o Chars("            3. Mention key performance indicators (OEE, production rates, quality ")
    \o Chars("metrics)\n")
    \o Chars("            4. Highlight any notable trends or patterns\n")
    \o Chars("            5. Keep the response informative but concise\n")
    \o Chars("            6. Use manufacturing terminology appropriately\n")
    \o Chars("            \n")
    \o Chars("            Response:\n")
    \o Chars("            ")

\* any(word in text for word in words)
AnyWordIn(words, text) == \E w \in words : Contains(Chars(w), text)

\* the four answers of the rule-based responder
RuleSummary ==
    JObj(<<Item("intent", JStr(Chars("summary"))),
           Item("time_period", JStr(Chars("current"))),
           Item("metrics", JArr(<<JStr(Chars("OEE")), JStr(Chars("Production")),
                                  JStr(Chars("Quality")), JStr(Chars("Energy"))>>)),
           Item("needs_chart", JBool(TRUE)),
           Item("chart_types", JArr(<<JStr(Chars("bar")), JStr(Chars("pie")),
                                      JStr(Chars("line"))>>)),
           Item("files_needed", JArr(<<>>)),
           Item("analysis_type", JStr(Chars("comprehensive_summary")))>>)

RuleComparison ==
    JObj(<<Item("intent", JStr(Chars("comparison"))),
           Item("time_period", JStr(Chars("multi_period"))),
           Item("metrics", JArr(<<JStr(Chars("OEE")), JStr(Chars("Production")),
                                  JStr(Chars("Quality"))>>)),
           Item("needs_chart", JBool(TRUE)),
           Item("chart_types", JArr(<<JStr(Chars("bar")), JStr(Chars("line")),
                                      JStr(Chars("comparison"))>>)),
           Item("files_needed", JArr(<<>>)),
           Item("analysis_type", JStr(Chars("comparative_analysis")))>>)

RuleTrend ==
    JObj(<<Item("intent", JStr(Chars("trend"))),
           Item("time_period", JStr(Chars("time_series"))),
           Item("metrics", JArr(<<JStr(Chars("OEE")), JStr(Chars("Energy")),
                                  JStr(Chars("Production"))>>)),
           Item("needs_chart", JBool(TRUE)),
           Item("chart_types", JArr(<<JStr(Chars("line")), JStr(Chars("area"))>>)),
           Item("files_needed", JArr(<<>>)),
           Item("analysis_type", JStr(Chars("trend_analysis")))>>)

RuleMetric ==
    JObj(<<Item("intent", JStr(Chars("specific_metric"))),
           Item("time_period", JStr(Chars("current"))),
           Item("metrics", JArr(<<JStr(Chars("OEE")), JStr(Chars("Production"))>>)),
           Item("needs_chart", JBool(TRUE)),
           Item("chart_types", JArr(<<JStr(Chars("bar"))>>)),
           Item("files_needed", JArr(<<>>)),
           Item("analysis_type", JStr(Chars("metric_analysis")))>>)

\* _rule_based_response: a JSON text when the prompt asks for an analysis,
\* and None otherwise, the function ending without a return statement
_rule_based_response(prompt) ==
    LET prompt_lower == lower(prompt)
    IN IF Contains(Chars("analyze"), prompt_lower) /\ Contains(Chars("json"), prompt_lower)
       THEN IF AnyWordIn({"summary", "overview", "report"}, prompt_lower)
            THEN JStr(dumps(RuleSummary))
            ELSE IF AnyWordIn({"compare", "comparison", "vs"}, prompt_lower)
            THEN JStr(dumps(RuleComparison))
            ELSE IF AnyWordIn({"trend", "over time"}, prompt_lower)
            THEN JStr(dumps(RuleTrend))
            ELSE JStr(dumps(RuleMetric))
       ELSE JNull

\* _fallback_analysis
_fallback_analysis(query_text) ==
    LET query_lower == lower(query_text)
        intent ==
            IF AnyWordIn({"summary", "overview", "report"}, query_lower)
            THEN Chars("summary")
            ELSE IF AnyWordIn({"compare", "comparison", "vs", "versus"}, query_lower)
            THEN Chars("comparison")
            ELSE IF AnyWordIn({"trend", "over time", "change"}, query_lower)
            THEN Chars("trend")
            ELSE Chars("specific_metric")
        needs_chart == AnyWordIn({"chart", "graph", "visual", "plot", "show"}, query_lower)
    IN JObj(<<Item("intent", JStr(intent)),
              Item("time_period", JStr(Chars("all"))),
              Item("metrics", JArr(<<JStr(Chars("OEE")), JStr(Chars("Production")),
                                     JStr(Chars("Quality"))>>)),
              Item("needs_chart", JBool(needs_chart)),
              Item("chart_types", JArr(<<JStr(Chars("bar")), JStr(Chars("line"))>>)),
              Item("analysis_type", JStr(Chars("basic_analysis")))>>)

---------------------------------------------------------------------------
(* The backends of _call_llama.  What a backend does is an input: the HTTP
   server, the llama-cpp script and the ollama program are outside the
   program *)

\* s.strip()
strip(s) ==
    LET kept == { i \in 1..Len(s) : ~IsWhitespace(s[i]) }
    IN IF kept = {} THEN <<>>
       ELSE SubSeq(s, Least(kept), CHOOSE i \in kept : \A j \in kept : j <= i)

\* s.startswith(prefix)
startswith(s, prefix) == Len(prefix) <= Len(s) /\ SubSeq(s, 1, Len(prefix)) = prefix

\* the texts a language model may answer with
TrendReply ==
    Chars("{\"intent\": \"trend\", \"metrics\": [\"OEE\"], \"needs_chart\": false, \"chart_types\": [\"line\"]}")
NumberReply == Chars("42")
ForecastReply ==
    Chars("{\"intent\": \"forecast\", \"needs_chart\": \"yes\", \"chart_types\": 5}")
ComparisonReply ==
    Chars("{\"intent\": \"comparison\", \"metrics\": [], \"needs_chart\": true, \"chart_types\": [\"bar\", \"line\"], \"analysis_type\": \"summary of periods\"}")
\* an analysis without needs_chart
BareReply == Chars("{\"intent\": \"summary\"}")
ProseReply == Chars("The machine ran well.")
ErrorReply == Chars("ERROR: No module named 'llama_cpp'")

Replies ==
    {TrendReply, NumberReply, ForecastReply, ComparisonReply, BareReply, ProseReply,
     ErrorReply, <<>>}

\* the body of a completion: {"choices": [{"text": text}]}
Completion(text) == JObj(<<Item("choices", JArr(<<JObj(<<Item("text", text)>>)>>))>>)

\* requests.post(...): it raises, or it returns a status and a body
HttpOutcomes ==
    { [kind |-> "exception"],
      [kind |-> "response", status_code |-> 503, body |-> JNull],
      [kind |-> "response", status_code |-> 200, body |-> JObj(<<>>)],
      [kind |-> "response", status_code |-> 200, body |-> Completion(JNull)] }
    \cup { [kind |-> "response", status_code |-> 200, body |-> Completion(JStr(r))] :
             r \in Replies }

\* subprocess.run(...): it raises (timeout, no such program), or the program
\* exits with a return code and what it printed
ProcessOutcomes ==
    { [kind |-> "exception"],
      [kind |-> "exit", returncode |-> 1, stdout |-> <<>>] }
    \cup { [kind |-> "exit", returncode |-> 0, stdout |-> r \o <<"\n">>] : r \in Replies }

\* response.json()['choices'][0]['text']
completion_text(body) ==
    IF body.t = "dict" /\ HasKey(body, "choices")
    THEN LET choices == Get(body, "choices", JNull)
         IN IF choices.t = "list" /\ choices.items # <<>>
                  /\ choices.items[1].t = "dict" /\ HasKey(choices.items[1], "text")
            THEN [raised |-> FALSE, v |-> Get(choices.items[1], "text", JNull)]
            ELSE [raised |-> TRUE, v |-> JNull]
    ELSE [raised |-> TRUE, v |-> JNull]

\* what the HTTP request makes _call_llama return, if anything
http_result(o) ==
    IF o.kind = "response" /\ o.status_code = 200 THEN completion_text(o.body)
    ELSE [raised |-> TRUE, v |-> JNull]

\* result.returncode == 0 and result.stdout.strip()
\*     and not result.stdout.startswith('ERROR:')
llama_cpp_result(o) ==
    IF o.kind = "exit" /\ o.returncode = 0 /\ strip(o.stdout) # <<>>
          /\ ~startswith(o.stdout, Chars("ERROR:"))
    THEN [raised |-> FALSE, v |-> JStr(strip(o.stdout))]
    ELSE [raised |-> TRUE, v |-> JNull]

\* result.returncode == 0 and result.stdout.strip()
ollama_result(o) ==
    IF o.kind = "exit" /\ o.returncode = 0 /\ strip(o.stdout) # <<>>
    THEN [raised |-> FALSE, v |-> JStr(strip(o.stdout))]
    ELSE [raised |-> TRUE, v |-> JNull]

\* for model_path in [...]
ollama_models ==
    <<Chars("./models/Vocalis-q4_k_m.gguf"), Chars("./Vocalis-q4_k_m.gguf"),
      Chars("vocalis")>>

\* the prompt of the call of _call_llama that is under way
data_context == _prepare_data_context(machine_data)
prompt ==
    IF caller = "analyze_query"
    THEN analysis_prompt(query.s, machine, data_context)
    ELSE response_prompt(query.s, machine, analysis, _prepare_data_summary(machine_data))

\* an entry of the log of the backends tried: the backend and whether it failed
Attempt(name, failed) == [backend |-> name, failed |-> failed]

\* the ollama candidates tried so far in this call
OllamaTried ==
    Cardinality({ i \in 1..Len(attempts) : IsIn(attempts[i].backend, ollama_models) })

\* the backend that follows one that failed, llama-cpp left out
next_backend_SkipLlamaCpp(position, tried) ==
    CASE position = "http" -> "ollama"
      [] position = "llama_cpp" -> "ollama"
      [] OTHER -> IF tried < Len(ollama_models) THEN "ollama" ELSE "rules"

\* the backend that follows one that failed; tried counts the ollama
\* candidates tried, the failed one included
next_backend(position, tried) ==
    CASE position = "http" -> "llama_cpp"
      [] position = "llama_cpp" -> "ollama"
      [] OTHER -> IF tried < Len(ollama_models) THEN "ollama" ELSE "rules"

\* _call_llama returns value
Return(value) ==
    /\ llama_ret' = value
    /\ lpc' = "returned"

\* _call_llama: the HTTP server on localhost:8080 first
TryHttp ==
    /\ lpc = "http"
    /\ \E o \in HttpOutcomes :
         /\ outcome' = o
         /\ attempts' = Append(attempts, Attempt(Chars("http"), http_result(o).raised))
         /\ IF http_result(o).raised
            THEN lpc' = next_backend("http", 0) /\ UNCHANGED llama_ret
            ELSE Return(http_result(o).v)
    /\ UNCHANGED <<extra_vars, fetch_vars, data_vars, cpc, machine_data, calls, caller, analysis,
                   response_text, charts, result>>

\* _call_llama: then the llama-cpp script as a subprocess
TryLlamaCpp ==
    /\ lpc = "llama_cpp"
    /\ \E o \in ProcessOutcomes :
         /\ outcome' = o
         /\ attempts' = Append(attempts,
                                Attempt(Chars("llama_cpp"), llama_cpp_result(o).raised))
         /\ IF llama_cpp_result(o).raised
            THEN lpc' = next_backend("llama_cpp", 0) /\ UNCHANGED llama_ret
            ELSE Return(llama_cpp_result(o).v)
    /\ UNCHANGED <<extra_vars, fetch_vars, data_vars, cpc, machine_data, calls, caller, analysis,
                   response_text, charts, result>>

\* _call_llama: then ollama with each candidate model in turn
TryOllama ==
    /\ lpc = "ollama"
    /\ \E o \in ProcessOutcomes :
         /\ outcome' = o
         /\ attempts' = Append(attempts, Attempt(ollama_models[OllamaTried + 1],
                                                  ollama_result(o).raised))
         /\ IF ollama_result(o).raised
            THEN /\ lpc' = next_backend("ollama", OllamaTried + 1)
                 /\ UNCHANGED llama_ret
            ELSE Return(ollama_result(o).v)
    /\ UNCHANGED <<extra_vars, fetch_vars, data_vars, cpc, machine_data, calls, caller, analysis,
                   response_text, charts, result>>

\* _call_llama: return self._rule_based_response(prompt)
RuleBased ==
    /\ lpc = "rules"
    /\ outcome' = [kind |-> "rules"]
    /\ attempts' = Append(attempts, Attempt(Chars("rules"), FALSE))
    /\ Return(_rule_based_response(prompt))
    /\ UNCHANGED <<extra_vars, fetch_vars, data_vars, cpc, machine_data, calls, caller, analysis,
                   response_text, charts, result>>

---------------------------------------------------------------------------
(* The report templates of _fallback_response.  A report is the name of its
   template, the machine it is about, the divisors its text was computed
   with, in the order of the divisions, and the exception that ended it, if
   one did *)

\* max(a, b) of Python: the first of the largest
max(a, b) == IF b > a THEN b ELSE a

Report(template, machine_name, denominators) ==
    [t |-> "report", template |-> template, machine |-> machine_name,
     denominators |-> denominators, raised |-> "none", monthly |-> <<>>]

\* ', '.join(df[col].unique()) raises TypeError unless every value is a str
JoinRaises(df, col) ==
    HasColumn(df, col) /\ \E i \in 1..Len(df.rows) : df.rows[i].cells[col].t # "str"

\* _generate_detailed_data_analysis raises; the frames of this model have
\* none of the columns 'Date', 'Part Produced', 'Part Rejected', 'OEE (%)'
\* whose branches could raise as well
DetailedAnalysisRaises(data) ==
    /\ "files" \in DOMAIN data
    /\ \E i \in 1..Len(data["files"]) :
         \E col \in {"Operator Name", "Part Name", "Shift"} :
            JoinRaises(data["files"][i].dataframe, col)

\* the divisors of the energy report without the guard of max(..., 1)
EnergyDenominators_Unguarded(summary) == <<SummaryGet(summary, "total_parts_produced", 0)>>

\* energy_per_unit = total_energy / max(total_produced, 1)
EnergyDenominators(summary) ==
    <<max(SummaryGet(summary, "total_parts_produced", 0), 1)>>

\* a report whose divisions raise ZeroDivisionError when a divisor is 0
Divided(report) ==
    IF \E i \in 1..Len(report.denominators) : report.denominators[i] = 0
    THEN [report EXCEPT !.raised = "ZeroDivisionError"]
    ELSE report

\* list(monthly_data.keys()): the periods in the order of the group keys
KeyRank(key) == MonthOfKey(key)[1] * 12 + MonthOfKey(key)[2]
months_list(monthly_data) ==
    LET keys == DOMAIN monthly_data
    IN CHOOSE seq \in [1..Cardinality(keys) -> keys] :
          /\ Range(seq) = keys
          /\ \A i \in 1..(Len(seq) - 1) : KeyRank(seq[i]) < KeyRank(seq[i + 1])

\* the figures of the lines "{month}: {production:,} parts, {oee:.1f}% OEE",
\* one line for every period: data.get('Part Produced', 0) and
\* data.get('OEE (%)', 0), which {:.1f} prints as it prints 0.0
period_lines(monthly_data) ==
    LET periods == months_list(monthly_data)
    IN [i \in 1..Len(periods) |->
          [month |-> periods[i],
           production |-> SummaryGet(monthly_data[periods[i]], "Part Produced", 0),
           oee |-> SummaryGet(monthly_data[periods[i]], "OEE (%)", Frac(0, 1))]]

_generate_basic_report(machine_name, summary) == Report("basic", machine_name, <<>>)

\* the divisions are those of the rejection rate, the energy per unit, the
\* cost per unit, the energy recommendation, and one by total_records for
\* every machine status
_generate_comprehensive_report(machine_name, summary, data) ==
    LET total_produced == SummaryGet(summary, "total_parts_produced", 0)
        statuses ==
            IF "machine_status_breakdown" \in DOMAIN summary
            THEN Cardinality(DOMAIN summary["machine_status_breakdown"]) ELSE 0
        head == [i \in 1..3 |-> max(total_produced, 1)]
        report ==
            Report("comprehensive", machine_name,
                   head \o <<max(total_produced, 1)>>
                        \o [i \in 1..statuses |-> SummaryGet(summary, "total_records", 1)])
        lines ==
            IF "monthly_breakdown" \in DOMAIN summary
                  /\ DOMAIN summary["monthly_breakdown"] # {}
            THEN period_lines(summary["monthly_breakdown"]) ELSE <<>>
    IN IF DetailedAnalysisRaises(data)
       THEN [Report("comprehensive", machine_name, head) EXCEPT !.raised = "TypeError"]
       ELSE [Divided(report) EXCEPT !.monthly = lines]

\* the basic report when there are fewer than two periods; otherwise one
\* division per period after the first, by
\* max(prev_data.get('Part Produced', 1), 1)
_generate_comparison_report(machine_name, summary, data) ==
    IF "monthly_breakdown" \notin DOMAIN summary
          \/ Cardinality(DOMAIN summary["monthly_breakdown"]) < 2
    THEN _generate_basic_report(machine_name, summary)
    ELSE LET monthly_data == summary["monthly_breakdown"]
             periods == months_list(monthly_data)
         IN [Divided(Report("comparison", machine_name,
                [i \in 1..(Len(periods) - 1) |->
                    max(SummaryGet(monthly_data[periods[i]], "Part Produced", 1), 1)]))
               EXCEPT !.monthly = period_lines(monthly_data)]

_generate_quality_report(machine_name, summary) == Report("quality", machine_name, <<>>)

_generate_oee_report(machine_name, summary) == Report("oee", machine_name, <<>>)

_generate_energy_report(machine_name, summary) ==
    Divided(Report("energy", machine_name, EnergyDenominators(summary)))

\* cost_per_unit = total_cost / max(total_produced, 1), and
\* total_cost / max(summary.get('total_records', 1), 1)
_generate_cost_report(machine_name, summary) ==
    Divided(Report("cost", machine_name,
                   <<max(SummaryGet(summary, "total_parts_produced", 0), 1),
                     max(SummaryGet(summary, "total_records", 1), 1)>>))

\* _fallback_response: the first branch whose keyword is in the query; an
\* exception of a template gives the 'Unable to process data' text
_fallback_response(query_text, machine_name, data) ==
    IF data = EmptyDict \/ "summary" \notin DOMAIN data
    THEN Report("no_data", machine_name, <<>>)
    ELSE LET summary == data["summary"]
             query_lower == lower(query_text)
             report ==
                 IF AnyWordIn({"summary", "overview", "report"}, query_lower)
                 THEN _generate_comprehensive_report(machine_name, summary, data)
                 ELSE IF AnyWordIn({"compare", "comparison"}, query_lower)
                 THEN _generate_comparison_report(machine_name, summary, data)
                 ELSE IF Contains(Chars("quality"), query_lower)
                 THEN _generate_quality_report(machine_name, summary)
                 ELSE IF Contains(Chars("oee"), query_lower)
                 THEN _generate_oee_report(machine_name, summary)
                 ELSE IF Contains(Chars("energy"), query_lower)
                 THEN _generate_energy_report(machine_name, summary)
                 ELSE IF Contains(Chars("cost"), query_lower)
                 THEN _generate_cost_report(machine_name, summary)
                 ELSE _generate_basic_report(machine_name, summary)
         IN IF report.raised = "none" THEN report
            ELSE [report EXCEPT !.template = "unable"]

---------------------------------------------------------------------------
(* generate_charts of the chart generator.  A _create_* method returns None
   when it raises, which it does for a frame without a column it reads, and
   when it finds nothing to draw; whether it otherwise returns a descriptor
   depends on matplotlib: that is an input, the set of the methods that
   return one *)

None == JNull

\* the descriptor a _create_* method returns
Chart(creator) ==
    [creator |-> creator,
     type |-> CASE creator = "_create_oee_chart" -> "histogram"
                [] creator = "_create_production_quality_chart" -> "pie"
                [] creator = "_create_monthly_comparison_chart" -> "combo"
                [] creator = "_create_shift_comparison_chart" -> "bar"
                [] creator = "_create_oee_trend_chart" -> "line"
                [] creator = "_create_energy_trend_chart" -> "area"
                [] creator = "_create_machine_status_chart" -> "bar"
                [] creator = "_create_cost_trend_chart" -> "line"]

\* the methods a _generate_*_charts method calls, in order, each under the
\* condition on the columns of the frame
_generate_summary_charts(df) ==
    (IF HasColumn(df, "avg_oee") THEN <<"_create_oee_chart">> ELSE <<>>)
    \o (IF HasColumn(df, "total_part_count") /\ HasColumn(df, "total_part_rejected")
        THEN <<"_create_production_quality_chart">> ELSE <<>>)

_generate_comparison_charts(df) ==
    (IF HasColumn(df, "date") THEN <<"_create_monthly_comparison_chart">> ELSE <<>>)
    \o (IF HasColumn(df, "Shift") THEN <<"_create_shift_comparison_chart">> ELSE <<>>)

_generate_trend_charts(df) ==
    IF HasColumn(df, "date")
    THEN (IF HasColumn(df, "avg_oee") THEN <<"_create_oee_trend_chart">> ELSE <<>>)
         \o (IF HasColumn(df, "avg_total_energy")
             THEN <<"_create_energy_trend_chart">> ELSE <<>>)
    ELSE <<>>

_generate_bar_charts(df) ==
    IF HasColumn(df, "Machine Status") THEN <<"_create_machine_status_chart">> ELSE <<>>

_generate_line_charts(df) ==
    IF HasColumn(df, "date") /\ HasColumn(df, "energyCost")
    THEN <<"_create_cost_trend_chart">> ELSE <<>>

\* text in container: a substring of a str, an element of a list, a key of a
\* dict, and TypeError for None, a number or a bool
py_in(text, container) ==
    CASE container.t = "str" ->
           [raised |-> FALSE, b |-> text = <<>> \/ Contains(text, container.s)]
      [] container.t = "list" ->
           [raised |-> FALSE,
            b |-> \E i \in 1..Len(container.items) : container.items[i] = JStr(text)]
      [] container.t = "dict" ->
           [raised |-> FALSE,
            b |-> \E i \in 1..Len(container.items) : container.items[i].k = text]
      [] OTHER -> [raised |-> TRUE, b |-> FALSE]

\* the methods generate_charts calls for an analysis and a frame, in order,
\* and whether one of its own tests raises
ChartPlan(analysis_value, df) ==
    LET intent == Get(analysis_value, "intent", JStr(Chars("summary")))
        chart_types == Get(analysis_value, "chart_types", JArr(<<JStr(Chars("bar"))>>))
        in_type == py_in(Chars("summary"), Get(analysis_value, "analysis_type", JStr(<<>>)))
        has_bar == py_in(Chars("bar"), chart_types)
        has_line == py_in(Chars("line"), chart_types)
    IN [raised |-> \/ intent # JStr(Chars("summary")) /\ in_type.raised
                   \/ has_bar.raised
                   \/ has_line.raised,
        creators |->
            (IF intent = JStr(Chars("summary")) \/ in_type.b
             THEN _generate_summary_charts(df) ELSE <<>>)
            \o (IF intent = JStr(Chars("comparison"))
                THEN _generate_comparison_charts(df) ELSE <<>>)
            \o (IF intent = JStr(Chars("trend")) THEN _generate_trend_charts(df) ELSE <<>>)
            \o (IF has_bar.b THEN _generate_bar_charts(df) ELSE <<>>)
            \o (IF has_line.b THEN _generate_line_charts(df) ELSE <<>>)]

\* the methods generate_charts calls
Creators(analysis_value, data) ==
    IF data = EmptyDict \/ "combined_data" \notin DOMAIN data
          \/ data["combined_data"] = None \/ analysis_value.t # "dict"
    THEN {}
    ELSE Range(ChartPlan(analysis_value, data["combined_data"]).creators)

\* the columns a _create_* method reads
Reads(creator) ==
    CASE creator = "_create_oee_chart" -> {"avg_oee"}
      [] creator = "_create_production_quality_chart" ->
           {"total_part_count", "total_part_reject"}
      [] creator = "_create_monthly_comparison_chart" ->
           {"date", "total_part_count", "avg_oee"}
      [] creator = "_create_shift_comparison_chart" ->
           {"Shift", "total_part_count", "avg_oee", "total_part_reject"}
      [] creator = "_create_oee_trend_chart" -> {"Date", "OEE (%)"}
      [] creator = "_create_energy_trend_chart" -> {"Date", "Total_energy (KwH)"}
      [] creator = "_create_machine_status_chart" -> {"Machine Status"}
      [] creator = "_create_cost_trend_chart" -> {"Date", "Production Cost"}

\* the method raises inside its try block, and its except clause returns
\* None: KeyError for a column the frame does not have, AttributeError for
\* .dt on a 'Date' column that is no datetime column
CreatorRaises(creator, df) ==
    \/ \E col \in Reads(creator) : ~HasColumn(df, col)
    \/ /\ "Date" \in Reads(creator)
       /\ df.dtypes["Date"] # "datetime64[ns]"

\* the method returns None because there is nothing to draw: no OEE value,
\* fewer than two months
NothingToDraw(creator, df) ==
    \/ /\ creator = "_create_oee_chart"
       /\ \A i \in 1..Len(df.rows) : isna(df.rows[i].cells["avg_oee"])
    \/ /\ creator = "_create_monthly_comparison_chart"
       /\ Cardinality(MonthKeys(dropna_subset(df, "date"))) < 2

\* the methods that may return a descriptor
Drawable(analysis_value, data) ==
    { c \in Creators(analysis_value, data) :
        /\ ~CreatorRaises(c, data["combined_data"])
        /\ ~NothingToDraw(c, data["combined_data"]) }

\* charts[:n]
Slice(charts_list, n) ==
    SubSeq(charts_list, 1, IF Len(charts_list) < n THEN Len(charts_list) ELSE n)

\* generate_charts without the limit of return charts[:4]
Limit_None(charts_list) == charts_list

\* return charts[:4]
Limit(charts_list) == Slice(charts_list, 4)

\* generate_charts; created is the set of the _create_* methods that return
\* a descriptor.  analysis.get raises for an analysis that is not a dict
generate_charts(analysis_value, data, created) ==
    IF data = EmptyDict \/ "combined_data" \notin DOMAIN data
          \/ data["combined_data"] = None
    THEN <<>>
    ELSE IF analysis_value.t # "dict" THEN <<>>
    ELSE LET plan == ChartPlan(analysis_value, data["combined_data"])
             made == SelectSeq(plan.creators, LAMBDA c : c \in created)
         IN IF plan.raised THEN <<>>
            ELSE Limit([i \in 1..Len(made) |-> Chart(made[i])])

---------------------------------------------------------------------------
(* The data a load returns to its caller *)

\* the entry of data['files'] for one frame
file_entry(filename, df) ==
    [filename |-> filename, dataframe |-> df,
     shape |-> <<Len(df.rows), Len(df.columns)>>, columns |-> df.columns,
     date_range |-> get_date_range(df), summary |-> get_file_summary(df)]

\* get_specific_file_data for the rows the table query returned: {} without
\* rows, and otherwise the data of the cleaned frame
table_data(machine_name, source_table) ==
    IF source_table.records = <<>> THEN EmptyDict
    ELSE LET df == sam_clean_dataframe(
                       DataFrame(source_table.columns, source_table.records)).ret
         IN [machine |-> machine_name,
             files |-> <<file_entry(Chars("from_table"), df)>>,
             combined_data |-> df,
             summary |-> sam_get_machine_summary(df)]

\* get_machine_data for a machine directory with one CSV file
one_file_data(machine_name, source_table) ==
    LET df == clean_dataframe(DataFrame(source_table.columns, source_table.records)).ret
    IN [machine |-> machine_name,
        files |-> <<file_entry(Chars("data.csv"), df)>>,
        combined_data |-> concat(df),
        summary |-> get_machine_summary(concat(df))]

\* get_machine_data for a machine directory without CSV files
no_files_data(machine_name) ==
    [machine |-> machine_name, files |-> <<>>, combined_data |-> None,
     summary |-> EmptyDict]

---------------------------------------------------------------------------
(* get_machine_data on a machine directory with several CSV files *)

MaxFiles == 3

\* a file that pd.read_csv cannot read
Unreadable == [readable |-> FALSE, columns |-> <<>>, records |-> <<>>]

Readable(columns, records) == [readable |-> TRUE, columns |-> columns, records |-> records]

AllColumns == <<"date", "Ai_partcount", "avg_oee", "avg_total_energy", "energyCost">>

FullRow(d, a) ==
    ("date" :> d) @@ ("Ai_partcount" :> a) @@ ("avg_oee" :> Num(50))
        @@ ("avg_total_energy" :> Num(5)) @@ ("energyCost" :> Num(1))

EmptyRow ==
    ("date" :> Null) @@ ("Ai_partcount" :> Null) @@ ("avg_oee" :> Null)
        @@ ("avg_total_energy" :> Null) @@ ("energyCost" :> Null)

\* what a CSV file of the directory may hold: all columns; an empty line
\* among the rows; some columns missing; other columns; a header only
CsvFiles ==
    { Unreadable,
      Readable(AllColumns, <<FullRow(JanText, Num(2))>>),
      Readable(AllColumns, <<EmptyRow, FullRow(FebText, Num(3))>>),
      Readable(<<"date", "Ai_partcount">>,
               <<("date" :> JanText) @@ ("Ai_partcount" :> Num(4))>>),
      Readable(<<"Ai_partcount", "shiftName">>,
               <<("Ai_partcount" :> Num(1)) @@ ("shiftName" :> ShiftText),
                 ("Ai_partcount" :> Text(<<"x">>)) @@ ("shiftName" :> ShiftText)>>),
      Readable(<<"Ai_partcount", "shiftName">>, <<>>) }

Directories == UNION { [1..n -> CsvFiles] : n \in 0..MaxFiles }

\* os.path.basename(file_path) of the file at place k of the directory
basename(k) == <<"f">> \o str(k) \o <<".", "c", "s", "v">>

InitFiles ==
    /\ FetchIdle
    /\ ChatIdle
    /\ GeneratorIdle
    /\ backend = "file"
    /\ dpc = "idle"
    /\ source = NoSource
    /\ frame = DataFrame(<<>>, <<>>)
    /\ cleaned = DataFrame(<<>>, <<>>)
    /\ combined_data = None
    /\ file_summary = EmptyDict
    /\ machine_summary = EmptyDict
    /\ resummary = EmptyDict
    /\ fpc = [at |-> "call", file |-> 0]
    /\ csv_files \in Directories
    /\ data_files = <<>>
    /\ all_data_frames = <<>>

\* if not os.path.exists(machine_path): return {}
MissingPath ==
    /\ fpc.at = "call"
    /\ csv_files = <<>>
    /\ fpc' = [at |-> "returned_empty", file |-> 0]
    /\ UNCHANGED <<fetch_vars, data_vars, chat_vars, generator_vars, csv_files, data_files,
                   all_data_frames>>

\* data = {...}; csv_files = glob.glob(...); all_data_frames = []
ListFiles ==
    /\ fpc.at = "call"
    /\ fpc' = [at |-> "loop", file |-> 1]
    /\ UNCHANGED <<fetch_vars, data_vars, chat_vars, generator_vars, csv_files, data_files,
                   all_data_frames>>

\* the body of the loop for a file that pd.read_csv reads: the frame is
\* cleaned, recorded under data['files'] and appended to all_data_frames
LoadFile ==
    /\ fpc.at = "loop"
    /\ fpc.file <= Len(csv_files)
    /\ csv_files[fpc.file].readable
    /\ LET csv == csv_files[fpc.file]
           df == clean_dataframe(DataFrame(csv.columns, csv.records)).ret
       IN /\ data_files' = Append(data_files, file_entry(basename(fpc.file), df))
          /\ all_data_frames' = Append(all_data_frames, df)
    /\ fpc' = [fpc EXCEPT !.file = fpc.file + 1]
    /\ UNCHANGED <<fetch_vars, data_vars, chat_vars, generator_vars, csv_files>>

\* the body of the loop for a file that pd.read_csv raises on:
\* except Exception: ...; continue
SkipFile ==
    /\ fpc.at = "loop"
    /\ fpc.file <= Len(csv_files)
    /\ ~csv_files[fpc.file].readable
    /\ fpc' = [fpc EXCEPT !.file = fpc.file + 1]
    /\ UNCHANGED <<fetch_vars, data_vars, chat_vars, generator_vars, csv_files, data_files,
                   all_data_frames>>

\* if all_data_frames: data['combined_data'] = pd.concat(...);
\* data['summary'] = self.get_machine_summary(data['combined_data']);
\* return data
Combine ==
    /\ fpc.at = "loop"
    /\ fpc.file > Len(csv_files)
    /\ IF all_data_frames # <<>>
       THEN LET r == summarize(pd_concat(all_data_frames), "file")
            IN combined_data' = r.arg /\ machine_summary' = r.ret
       ELSE UNCHANGED <<combined_data, machine_summary>>
    /\ fpc' = [at |-> "returned", file |-> 0]
    /\ UNCHANGED <<fetch_vars, chat_vars, generator_vars, backend, dpc, source, frame, cleaned,
                   file_summary, resummary, csv_files, data_files, all_data_frames>>

NextFiles ==
    \/ MissingPath
    \/ ListFiles
    \/ LoadFile
    \/ SkipFile
    \/ Combine

SpecFiles == InitFiles /\ [][NextFiles]_vars

---------------------------------------------------------------------------
(* Inputs of process_chat_query *)

ChatQueries ==
    { Chars("show me a quality comparison chart"),
      Chars("monthly summary"),
      Chars("compare energy"),
      Chars("quality"),
      Chars("oee last month"),
      Chars("energy cost"),
      Chars("cost"),
      Chars("hello"),
      Chars("Analyze the JSON export") }

\* two months, the first without production
TwoMonthsTable ==
    [columns |-> <<"date", "Ai_partcount", "avg_oee", "avg_total_energy">>,
     records |->
       << ("date" :> JanText) @@ ("Ai_partcount" :> Null) @@ ("avg_oee" :> Num(50))
            @@ ("avg_total_energy" :> Num(5)),
          ("date" :> FebText) @@ ("Ai_partcount" :> Num(2)) @@ ("avg_oee" :> Num(50))
            @@ ("avg_total_energy" :> Num(5)) >>]

\* dated rows without the columns the monthly aggregation names
NoOeeTable ==
    [columns |-> <<"date", "Ai_partcount", "total_part_reject">>,
     records |->
       << ("date" :> JanText) @@ ("Ai_partcount" :> Num(2))
            @@ ("total_part_reject" :> Num(1)) >>]

\* rows without date, nothing produced, with the columns the charts read
UndatedTable(shift) ==
    [columns |-> <<"Ai_partcount", "total_part_reject", "total_part_count",
                   "total_part_rejected", "avg_oee", "avg_total_energy", "Shift",
                   "Machine Status">>,
     records |->
       << ("Ai_partcount" :> Num(0)) @@ ("total_part_reject" :> Num(3))
            @@ ("total_part_count" :> Num(2)) @@ ("total_part_rejected" :> Num(0))
            @@ ("avg_oee" :> Num(50)) @@ ("avg_total_energy" :> Num(5))
            @@ ("Shift" :> shift)
            @@ ("Machine Status" :> Text(<<"R", "U", "N">>)) >>]

\* one row that the cleaning drops: no date that parses, no number
EmptiedTable ==
    [columns |-> <<"date", "Ai_partcount", "avg_oee", "avg_total_energy">>,
     records |->
       << ("date" :> BadDateText) @@ ("Ai_partcount" :> Null) @@ ("avg_oee" :> Null)
            @@ ("avg_total_energy" :> Null) >>]

NoTable == [columns |-> <<>>, records |-> <<>>]

ChatTables ==
    {NoTable, TwoMonthsTable, NoOeeTable, EmptiedTable, UndatedTable(Text(<<"A">>)),
     UndatedTable(Null)}

---------------------------------------------------------------------------
(* process_chat_query as a sequence of steps; the steps inside _call_llama
   are those of the backends above *)

\* bool(value)
truthy(value) ==
    CASE value.t = "null" -> FALSE
      [] value.t = "bool" -> value.b
      [] value.t = "int" -> value.n # 0
      [] value.t = "str" -> value.s # <<>>
      [] OTHER -> value.items # <<>>

\* type(value).__name__
type_name(value) ==
    CASE value.t = "null" -> Chars("NoneType")
      [] value.t = "bool" -> Chars("bool")
      [] value.t = "int" -> Chars("int")
      [] value.t = "str" -> Chars("str")
      [] value.t = "list" -> Chars("list")
      [] OTHER -> Chars("dict")

\* the return of the branch 'if not machine_data'
NoDataResult(machine_name) ==
    [response |-> Chars("No data found for machine ") \o machine_name
         \o Chars(". Please check if the machine folder exists and contains CSV files."),
     charts |-> <<>>,
     type |-> "error"]

\* the AttributeError of analysis.get leaves process_chat_query
ErrorResult_Raised(value) == [raised |-> Chars("AttributeError")]

\* the return of the except clause, for the AttributeError of analysis.get
ErrorResult(value) ==
    [response |-> Chars("I encountered an error while processing your request: '")
         \o type_name(value) \o Chars("' object has no attribute 'get'"),
     charts |-> <<>>,
     type |-> "error"]

SuccessResult(text, analysis_value, charts_list) ==
    [response |-> text, type |-> "success", analysis |-> analysis_value,
     charts |-> charts_list]

InitChat ==
    /\ pc = "idle"
    /\ query \in { StrQuery(q) : q \in ChatQueries }
    /\ machine = <<"M", "1">>
    /\ now = NoQuery
    /\ month_year = Raised
    /\ date_start = <<>>
    /\ date_end = <<>>
    /\ issued = <<>>
    /\ backend = "none"
    /\ dpc = "idle"
    /\ source = NoSource
    /\ frame = DataFrame(<<>>, <<>>)
    /\ cleaned = DataFrame(<<>>, <<>>)
    /\ combined_data = DataFrame(<<>>, <<>>)
    /\ file_summary = EmptyDict
    /\ machine_summary = EmptyDict
    /\ resummary = EmptyDict
    /\ cpc = "call"
    /\ machine_data = EmptyDict
    /\ calls = <<>>
    /\ caller = "none"
    /\ lpc = "idle"
    /\ attempts = <<>>
    /\ outcome = NoOutcome
    /\ llama_ret = NoValue
    /\ analysis = NoValue
    /\ response_text = NoValue
    /\ charts = <<>>
    /\ result = EmptyDict
    /\ GeneratorIdle
    /\ LoadIdle

\* machine_data = data_processor.get_specific_file_data(machine, query), up
\* to entities = list(table_client.query_entities(filter_expr)), which is
\* called without a timeout
CallTable ==
    /\ cpc = "call"
    /\ calls' = Append(calls, "get_specific_file_data")
    /\ cpc' = "query_entities"
    /\ UNCHANGED <<extra_vars, fetch_vars, data_vars, machine_data, llama_vars, analysis,
                   response_text, charts, result>>

\* the table service answers, and the return of 'if not machine_data'.  What
\* the table holds and whether the query raises are inputs; the load returns
\* {} when the query of the table raises
Fetch ==
    /\ cpc = "query_entities"
    /\ \E source_table \in ChatTables, reachable \in BOOLEAN :
         LET data == IF reachable THEN table_data(machine, source_table) ELSE EmptyDict
         IN /\ machine_data' = data
            /\ IF data = EmptyDict
               THEN /\ result' = NoDataResult(machine)
                    /\ cpc' = "returned"
               ELSE /\ cpc' = "fetched"
                    /\ UNCHANGED result
    /\ UNCHANGED <<extra_vars, fetch_vars, data_vars, calls, llama_vars, analysis, response_text,
                   charts>>

\* a method of the client calls self._call_llama(prompt)
CallLlama(method) ==
    /\ caller' = method
    /\ lpc' = "http"
    /\ attempts' = <<>>
    /\ outcome' = NoOutcome
    /\ llama_ret' = NoValue

\* analysis = llama_client.analyze_query(query, machine, machine_data), up to
\* its call of _call_llama
AnalyzeQuery ==
    /\ cpc = "fetched"
    /\ calls' = Append(calls, "analyze_query")
    /\ CallLlama("analyze_query")
    /\ cpc' = "analyze_query"
    /\ UNCHANGED <<extra_vars, fetch_vars, data_vars, machine_data, analysis, response_text, charts,
                   result>>

\* analyze_query: json.loads(response), and _fallback_analysis(query) when
\* it raises
analyze_query_return(response, query_text) ==
    IF loads(response).raised THEN _fallback_analysis(query_text)
    ELSE loads(response).v

AnalyzeReturn ==
    /\ cpc = "analyze_query"
    /\ lpc = "returned"
    /\ analysis' = analyze_query_return(llama_ret, query.s)
    /\ lpc' = "idle"
    /\ cpc' = "analyzed"
    /\ UNCHANGED <<extra_vars, fetch_vars, data_vars, machine_data, calls, caller, attempts, outcome,
                   llama_ret, response_text, charts, result>>

\* response_text = llama_client.generate_response(...), up to its call of
\* _call_llama
GenerateResponse ==
    /\ cpc = "analyzed"
    /\ calls' = Append(calls, "generate_response")
    /\ CallLlama("generate_response")
    /\ cpc' = "generate_response"
    /\ UNCHANGED <<extra_vars, fetch_vars, data_vars, machine_data, analysis, response_text, charts,
                   result>>

\* generate_response: return response.strip(); _fallback_response when it
\* raises, as it does for a response that is no str
generate_response_return(response, query_text, machine_name, data) ==
    IF response.t = "str" THEN JStr(strip(response.s))
    ELSE _fallback_response(query_text, machine_name, data)

ResponseReturn ==
    /\ cpc = "generate_response"
    /\ lpc = "returned"
    /\ response_text' = generate_response_return(llama_ret, query.s, machine, machine_data)
    /\ lpc' = "idle"
    /\ cpc' = "responded"
    /\ UNCHANGED <<extra_vars, fetch_vars, data_vars, machine_data, calls, caller, attempts, outcome,
                   llama_ret, analysis, charts, result>>

\* a test that takes an analysis without needs_chart to ask for charts
needs_chart_Default(analysis_value) == truthy(Get(analysis_value, "needs_chart", JBool(TRUE)))

\* if analysis.get('needs_chart', False)
needs_chart(analysis_value) == truthy(Get(analysis_value, "needs_chart", JBool(FALSE)))

\* the rest of process_chat_query: get_specific_file_data never sets
\* 'query_specific', so the text stays as it is; analysis.get raises for an
\* analysis that is no dict; the charts are generated if needs_chart is true
ReturnResult ==
    /\ cpc = "responded"
    /\ IF analysis.t # "dict"
       THEN /\ result' = ErrorResult(analysis)
            /\ UNCHANGED <<charts, calls>>
       ELSE IF needs_chart(analysis)
       THEN \E created \in SUBSET Drawable(analysis, machine_data) :
              /\ charts' = generate_charts(analysis, machine_data, created)
              /\ calls' = Append(calls, "generate_charts")
              /\ result' = SuccessResult(response_text, analysis, charts')
       ELSE /\ result' = SuccessResult(response_text, analysis, <<>>)
            /\ UNCHANGED <<charts, calls>>
    /\ cpc' = "returned"
    /\ UNCHANGED <<extra_vars, fetch_vars, data_vars, machine_data, llama_vars, analysis,
                   response_text>>

NextChat ==
    \/ CallTable
    \/ Fetch
    \/ AnalyzeQuery
    \/ TryHttp
    \/ TryLlamaCpp
    \/ TryOllama
    \/ RuleBased
    \/ AnalyzeReturn
    \/ GenerateResponse
    \/ ResponseReturn
    \/ ReturnResult

SpecChat == InitChat /\ [][NextChat]_vars

\* WF_vars(RuleBased) and WF_vars(AnalyzeReturn), written out by the definition
\* of weak fairness: RuleBased is enabled exactly where lpc = "rules",
\* AnalyzeReturn exactly where _call_llama has returned to analyze_query, and
\* every step from such a state is that action
RuleBasedFair == []<>(lpc # "rules") \/ []<><<lpc = "rules">>_vars

AnalyzeReturnFair ==
    \/ []<>~(cpc = "analyze_query" /\ lpc = "returned")
    \/ []<><<cpc = "analyze_query" /\ lpc = "returned">>_vars

\* The steps that cannot wait for ever: the statements of the program, and
\* the calls that carry a timeout (requests.post timeout=60, subprocess.run
\* timeout=45 and timeout=30), which raise when the service does not answer.
\* Fetch, the answer of the table service, is not among them
TimedSteps ==
    /\ WF_vars(CallTable)
    /\ WF_vars(AnalyzeQuery)
    /\ WF_vars(TryHttp)
    /\ WF_vars(TryLlamaCpp)
    /\ WF_vars(TryOllama)
    /\ RuleBasedFair
    /\ AnalyzeReturnFair
    /\ WF_vars(GenerateResponse)
    /\ WF_vars(ResponseReturn)
    /\ WF_vars(ReturnResult)

\* one chat request, with the table service free never to answer
InitChatLive ==
    /\ InitChat
    /\ query = StrQuery(Chars("monthly summary"))

SpecChatLive == InitChatLive /\ [][NextChat]_vars /\ TimedSteps

---------------------------------------------------------------------------
(* Claims about the language client and the chat pipeline *)

InCall == lpc \in {"http", "llama_cpp", "ollama", "rules"}

BackendOrder ==
    <<Chars("http"), Chars("llama_cpp"), Chars("./models/Vocalis-q4_k_m.gguf"),
      Chars("./Vocalis-q4_k_m.gguf"), Chars("vocalis"), Chars("rules")>>

\* the last backend tried succeeded with the text that _call_llama returned
LastSucceeded ==
    LET last == attempts[Len(attempts)]
    IN /\ ~last.failed
       /\ last.backend = Chars("http") =>
            /\ outcome.kind = "response" /\ outcome.status_code = 200
            /\ llama_ret = outcome.body.items[1].v.items[1].items[1].v
       /\ last.backend \in Range(SubSeq(BackendOrder, 2, 5)) =>
            /\ outcome.kind = "exit" /\ outcome.returncode = 0
            /\ strip(outcome.stdout) # <<>>
            /\ llama_ret = JStr(strip(outcome.stdout))
       /\ last.backend = Chars("llama_cpp") =>
            \E i \in 1..6 : At(outcome.stdout, i) # Chars("ERROR:")[i]

\* C18: the backends are tried in the order HTTP, llama-cpp, the three
\* ollama candidates in list order, rule-based responder; every backend tried
\* before the last one failed; while the call is under way every backend
\* tried failed and one more is left to try; and when the call has returned,
\* the last backend tried succeeded and its text is what was returned
C18_BackendOrder ==
    /\ Len(attempts) <= Len(BackendOrder)
    /\ \A i \in 1..Len(attempts) : attempts[i].backend = BackendOrder[i]
    /\ \A i \in 1..(Len(attempts) - 1) : attempts[i].failed
    /\ InCall =>
         /\ \A i \in 1..Len(attempts) : attempts[i].failed
         /\ Len(attempts) < Len(BackendOrder)
    /\ lpc = "returned" => attempts # <<>> /\ LastSucceeded

\* the second ollama candidate answers after three backends failed
C18_Witness ==
    /\ lpc = "returned"
    /\ Len(attempts) = 4
    /\ attempts[4] = Attempt(Chars("./Vocalis-q4_k_m.gguf"), FALSE)
    /\ attempts[2].failed
    /\ llama_ret = JStr(TrendReply)

\* every backend of the call failed, and the rule-based responder answered
AllBackendsFailed ==
    /\ Len(attempts) = Len(BackendOrder)
    /\ \A i \in 1..(Len(attempts) - 1) : attempts[i].failed

\* the intent and the chart flag of the keyword classifier for a query
ClassifiedIntent(query_lower) ==
    IF \E w \in {"summary", "overview", "report"} : Contains(Chars(w), query_lower)
    THEN Chars("summary")
    ELSE IF \E w \in {"compare", "comparison", "vs", "versus"} : Contains(Chars(w), query_lower)
    THEN Chars("comparison")
    ELSE IF \E w \in {"trend", "over time", "change"} : Contains(Chars(w), query_lower)
    THEN Chars("trend")
    ELSE Chars("specific_metric")

ClassifiedChart(query_lower) ==
    \E w \in {"chart", "graph", "visual", "plot", "show"} : Contains(Chars(w), query_lower)

\* C11: when every backend failed, analyze_query returns the intent and the
\* chart flag that the keyword classifier gives for the query
C11_KeywordClassifier ==
    (cpc = "analyzed" /\ AllBackendsFailed) =>
        /\ analysis.t = "dict"
        /\ Get(analysis, "intent", JNull) = JStr(ClassifiedIntent(lower(query.s)))
        /\ Get(analysis, "needs_chart", JNull) = JBool(ClassifiedChart(lower(query.s)))

\* C17: whatever the backends did, analyze_query returns a QueryIntent
IsQueryIntent(value) ==
    /\ value.t = "dict"
    /\ Get(value, "intent", JNull)
         \in { JStr(Chars(w)) :
                 w \in {"summary", "comparison", "trend", "specific_metric", "report"} }
    /\ Get(value, "needs_chart", JNull).t = "bool"
    /\ Get(value, "metrics", JNull).t = "list"
    /\ Get(value, "chart_types", JNull).t = "list"

C17_QueryIntent == cpc = "analyzed" => IsQueryIntent(analysis)

\* the template the keywords of a query select
SelectedTemplate(query_lower) ==
    IF \E w \in {"summary", "overview", "report"} : Contains(Chars(w), query_lower)
    THEN "comprehensive"
    ELSE IF \E w \in {"compare", "comparison"} : Contains(Chars(w), query_lower)
    THEN "comparison"
    ELSE IF Contains(Chars("quality"), query_lower) THEN "quality"
    ELSE IF Contains(Chars("oee"), query_lower) THEN "oee"
    ELSE IF Contains(Chars("energy"), query_lower) THEN "energy"
    ELSE IF Contains(Chars("cost"), query_lower) THEN "cost"
    ELSE "basic"

\* C19: when every backend failed, generate_response returns the report of
\* the template that the first matching keyword of the query selects
C19_Template ==
    (cpc = "responded" /\ AllBackendsFailed) =>
        /\ response_text.t = "report"
        /\ response_text.template = SelectedTemplate(lower(query.s))

\* C20: every division of a report template has a divisor of at least 1,
\* and no template ends with ZeroDivisionError
C20_Denominators ==
    response_text.t = "report" =>
        /\ \A i \in 1..Len(response_text.denominators) : response_text.denominators[i] >= 1
        /\ response_text.raised # "ZeroDivisionError"

\* the comparison report over two months, the first of them without
\* production
C20_Witness ==
    /\ cpc = "responded"
    /\ response_text.t = "report"
    /\ response_text.template = "comparison"
    /\ response_text.denominators = <<1>>
    /\ machine_data["summary"]["total_records"] = 2
    /\ machine_data["summary"]["monthly_breakdown"][<<"2", "0", "2", "4", "-", "0", "1">>]["Ai_partcount"] = 0

\* a textual message: a str that is not empty
IsMessage(text) ==
    /\ DOMAIN text = 1..Len(text)
    /\ text # <<>>
    /\ \A i \in 1..Len(text) : Len(text[i]) = 1

\* C12: process_chat_query always returns a value with a type; when the
\* fetch gave no data the value has type "error", no charts and a message,
\* and the fetch is the only component that was called; when a later step
\* raised, as analysis.get does for an analysis that is no dict, the value
\* has type "error", no charts and a message as well
C12_NeverRaises ==
    cpc = "returned" =>
        /\ "type" \in DOMAIN result
        /\ machine_data = EmptyDict =>
             /\ result["type"] = "error"
             /\ result["charts"] = <<>>
             /\ IsMessage(result["response"])
             /\ calls = <<"get_specific_file_data">>
        /\ (machine_data # EmptyDict /\ analysis.t # "dict") =>
             /\ result["type"] = "error"
             /\ result["charts"] = <<>>
             /\ IsMessage(result["response"])

\* the classifier returned the number 42, and analysis.get raised after the
\* narrative was composed
C12_Witness ==
    /\ cpc = "returned"
    /\ analysis = JInt(42)
    /\ calls = <<"get_specific_file_data", "analyze_query", "generate_response">>
    /\ result["type"] = "error"
    /\ result["response"]
         = Chars("I encountered an error while processing your request: 'int' object has no attribute 'get'")

\* C15: every value process_chat_query returns has the four fields response,
\* type, analysis and charts, and its type is "success" or "error"
C15_FourFields ==
    cpc = "returned" =>
        /\ DOMAIN result = {"response", "type", "analysis", "charts"}
        /\ result["type"] \in {"success", "error"}

---------------------------------------------------------------------------
(* generate_charts on its own: the analysis and the machine data are inputs *)

\* a CSV file with the columns that generate_charts tests and the columns
\* that the methods it calls read, the trend charts apart
WideTable ==
    [columns |-> <<"date", "avg_oee", "total_part_count", "total_part_rejected",
                   "total_part_reject", "Shift", "Machine Status", "energyCost">>,
     records |->
       << ("date" :> JanText) @@ ("avg_oee" :> Num(50)) @@ ("total_part_count" :> Num(2))
            @@ ("total_part_rejected" :> Num(0)) @@ ("total_part_reject" :> Num(0))
            @@ ("Shift" :> Text(<<"A">>))
            @@ ("Machine Status" :> Text(<<"R", "U", "N">>)) @@ ("energyCost" :> Num(1)),
          ("date" :> FebText) @@ ("avg_oee" :> Num(50)) @@ ("total_part_count" :> Num(2))
            @@ ("total_part_rejected" :> Num(1)) @@ ("total_part_reject" :> Num(1))
            @@ ("Shift" :> Text(<<"B">>))
            @@ ("Machine Status" :> Text(<<"R", "U", "N">>)) @@ ("energyCost" :> Num(1)) >>]

ChartData ==
    { EmptyDict,
      [machine |-> <<"M", "1">>],
      no_files_data(<<"M", "1">>),
      one_file_data(<<"M", "1">>, WideTable),
      table_data(<<"M", "1">>, TwoMonthsTable),
      table_data(<<"M", "1">>, UndatedTable(Text(<<"A">>))) }

ChartAnalyses ==
    { RuleSummary, RuleComparison, RuleTrend, RuleMetric,
      _fallback_analysis(Chars("compare energy")),
      loads(JStr(TrendReply)).v,
      loads(JStr(ForecastReply)).v,
      loads(JStr(ComparisonReply)).v,
      loads(JStr(NumberReply)).v,
      JObj(<<>>),
      JObj(<<Item("intent", JStr(Chars("comparison"))), Item("analysis_type", JNull)>>),
      JObj(<<Item("intent", JStr(Chars("trend"))),
             Item("chart_types", JStr(Chars("bar and line")))>>) }

InitCharts ==
    /\ pc = "idle"
    /\ query = NoneQuery
    /\ machine = <<"M", "1">>
    /\ now = NoQuery
    /\ month_year = Raised
    /\ date_start = <<>>
    /\ date_end = <<>>
    /\ issued = <<>>
    /\ backend = "none"
    /\ dpc = "idle"
    /\ source = NoSource
    /\ frame = DataFrame(<<>>, <<>>)
    /\ cleaned = DataFrame(<<>>, <<>>)
    /\ combined_data = DataFrame(<<>>, <<>>)
    /\ file_summary = EmptyDict
    /\ machine_summary = EmptyDict
    /\ resummary = EmptyDict
    /\ cpc = "generate_charts"
    /\ machine_data \in ChartData
    /\ calls = <<>>
    /\ caller = "none"
    /\ lpc = "idle"
    /\ attempts = <<>>
    /\ outcome = NoOutcome
    /\ llama_ret = NoValue
    /\ analysis \in ChartAnalyses
    /\ response_text = NoValue
    /\ charts = <<>>
    /\ result = EmptyDict
    /\ GeneratorIdle
    /\ LoadIdle

\* charts = chart_generator.generate_charts(analysis, machine_data)
GenerateCharts ==
    /\ cpc = "generate_charts"
    /\ \E created \in SUBSET Drawable(analysis, machine_data) :
         charts' = generate_charts(analysis, machine_data, created)
    /\ calls' = Append(calls, "generate_charts")
    /\ cpc' = "charted"
    /\ UNCHANGED <<extra_vars, fetch_vars, data_vars, machine_data, llama_vars, analysis,
                   response_text, result>>

NextCharts == GenerateCharts

SpecCharts == InitCharts /\ [][NextCharts]_vars

\* the machine data has no frame to draw from
NoCombinedData ==
    \/ machine_data = EmptyDict
    \/ "combined_data" \notin DOMAIN machine_data
    \/ machine_data["combined_data"] = JNull

\* a test for membership in a value that is no str, list or dict raises
NoContainer(value) == value.t \in {"null", "bool", "int"}

\* a step of generate_charts raises
StepRaises ==
    \/ analysis.t # "dict"
    \/ /\ analysis.t = "dict"
       /\ \/ NoContainer(Get(analysis, "chart_types", JArr(<<>>)))
          \/ /\ Get(analysis, "intent", JStr(Chars("summary"))) # JStr(Chars("summary"))
             /\ NoContainer(Get(analysis, "analysis_type", JStr(<<>>)))

\* a _create_* method that generate_charts calls raises
CreationRaises ==
    \E c \in Creators(analysis, machine_data) :
       CreatorRaises(c, machine_data["combined_data"])

---------------------------------------------------------------------------
(* Two chat requests inside the one ChartGenerator of routes.py *)

Requests == {1, 2}

\* getattr(self, "machine_name", "Machine")
getattr_machine_name ==
    IF self_machine_name.set THEN self_machine_name.value ELSE Chars("Machine")

\* f'OEE Performance Distribution - {...}'
machine_title(name) == Chars("OEE Performance Distribution - ") \o name

\* f'{...}: OEE ranges from ...', up to the first figure
description_head(name) == name \o Chars(": OEE ranges from ")

InitShared ==
    /\ FetchIdle
    /\ DataIdle
    /\ ChatIdle
    /\ LoadIdle
    /\ self_machine_name = Unset
    /\ rpc = [r \in Requests |-> "call"]
    /\ request_machine \in [Requests -> Machines]
    /\ oee_title = [r \in Requests |-> <<>>]
    /\ oee_description = [r \in Requests |-> <<>>]

\* generate_charts: if not machine_data or ... is None: return charts
ReturnNoCharts(r) ==
    /\ rpc[r] = "call"
    /\ rpc' = [rpc EXCEPT ![r] = "returned"]
    /\ UNCHANGED <<fetch_vars, data_vars, chat_vars, load_vars, self_machine_name,
                   request_machine, oee_title, oee_description>>

\* generate_charts: self.machine_name = machine_name
SetMachineName(r) ==
    /\ rpc[r] = "call"
    /\ self_machine_name' = [set |-> TRUE, value |-> request_machine[r]]
    /\ rpc' = [rpc EXCEPT ![r] = "named"]
    /\ UNCHANGED <<fetch_vars, data_vars, chat_vars, load_vars, request_machine, oee_title,
                   oee_description>>

\* _create_oee_chart: machine_title = f'...{getattr(self, "machine_name", ...)}'
CreateOeeTitle(r) ==
    /\ rpc[r] = "named"
    /\ oee_title' = [oee_title EXCEPT ![r] = machine_title(getattr_machine_name)]
    /\ rpc' = [rpc EXCEPT ![r] = "titled"]
    /\ UNCHANGED <<fetch_vars, data_vars, chat_vars, load_vars, self_machine_name,
                   request_machine, oee_description>>

\* _create_oee_chart: return {..., 'title': machine_title, ...,
\* 'description': f'{getattr(self, "machine_name", "Machine")}: OEE ranges ...'}
CreateOeeReturn(r) ==
    /\ rpc[r] = "titled"
    /\ oee_description' =
         [oee_description EXCEPT ![r] = description_head(getattr_machine_name)]
    /\ rpc' = [rpc EXCEPT ![r] = "done"]
    /\ UNCHANGED <<fetch_vars, data_vars, chat_vars, load_vars, self_machine_name,
                   request_machine, oee_title>>

NextShared ==
    \/ \E r \in Requests : ReturnNoCharts(r)
    \/ \E r \in Requests : SetMachineName(r)
    \/ \E r \in Requests : CreateOeeTitle(r)
    \/ \E r \in Requests : CreateOeeReturn(r)

SpecShared == InitShared /\ [][NextShared]_vars

\* C21: when requests for two different machines interleave, the title and
\* the description of the OEE chart of every request name the machine of
\* that request.  The one generator keeps the name in an attribute that the
\* other request overwrites, so this is violated.
C21_OwnMachine ==
    \A r \in DOMAIN rpc :
        rpc[r] = "done" =>
            /\ oee_title[r] = machine_title(request_machine[r])
            /\ oee_description[r] = description_head(request_machine[r])

---------------------------------------------------------------------------
(* Termination of a chat request *)

\* C22: every external call carries a timeout, so process_chat_query returns
\* in the end even when a service never answers.  The query of the table is
\* called without one, and a request waits for it for ever.
C22_Returns == <>(cpc = "returned")

\* what the timeouts of the language backends do secure: once the table has
\* answered, the request returns
AfterFetchReturns == (cpc = "fetched") ~> (cpc = "returned")

---------------------------------------------------------------------------
(* Claims about the ingestion paths and the normalizers *)

\* the frame as it was loaded, before the normalizer was called
Loaded == DataFrame(source.columns, source.records)

Normalized == dpc \in {"cleaned", "summarized", "done", "again"}

\* C23: the two loads from the table store (get_specific_file_data,
\* sam_get_machine_data_from_table) normalize with the column-pruning
\* sam_clean_dataframe, the load from files with the full-retention
\* clean_dataframe.  sam_get_machine_data_from_table calls clean_dataframe,
\* so this is violated.
C23_NormalizerPerSource ==
    Normalized =>
        cleaned = IF backend = "file" THEN clean_dataframe(Loaded).ret
                  ELSE sam_clean_dataframe(Loaded).ret

\* the canonical columns: date, the 17 numeric columns, Machine Status and
\* Maintenance Flag
Canonical == {"date", "Machine Status", "Maintenance Flag"} \cup Range(numeric_columns)

\* C24: the columns of what sam_clean_dataframe returns are the columns of
\* its input that are canonical, also for an input without date column.
\* The status and maintenance columns are never kept, and without date
\* column nothing is pruned, so this is violated.
C24_CanonicalColumns ==
    (Normalized /\ backend = "table") =>
        Range(cleaned.columns) = Range(source.columns) \cap Canonical

\* C25: a normalizer never raises, leaves the table passed in unchanged and
\* on an internal failure returns the input as it was before the call.  Both
\* normalizers assign the coerced columns to the frame they are given, so
\* this is violated.
C25_Pure ==
    Normalized =>
        /\ frame = Loaded
        /\ (backend = "table" /\ ~HasColumn(Loaded, "date")) => cleaned = Loaded

\* the entries of the Maintenance Flag column that count: numeric or boolean
\* values throughout, summed with True as 1
FlagsCounted(df) ==
    IF df.dtypes["Maintenance Flag"] \in {"int64", "float64", "bool"}
    THEN SumCells(Column(df.rows, "Maintenance Flag")) ELSE 0

\* C26: when the table summarized has a Maintenance Flag column,
\* maintenance_events is the sum of its entries if they are numeric or
\* boolean and 0 otherwise, in get_machine_summary and in
\* sam_get_machine_summary.  get_machine_summary gives 0 for a boolean
\* column, so this is violated.
C26_MaintenanceEvents ==
    (dpc = "done" /\ HasColumn(combined_data, "Maintenance Flag")) =>
        /\ "maintenance_events" \in DOMAIN machine_summary
        /\ machine_summary["maintenance_events"] = FlagsCounted(combined_data)

---------------------------------------------------------------------------
(* The month of a query that names several *)

\* the places in the month table of the keys that are words of s
KeysNamedIn(s) == { i \in 1..Len(months) : months[i].key \in WordsOf(s) }

\* C27: without relative phrase, a query that holds several month words as
\* whole words resolves to the month that comes first in the iteration order
\* of the month table, wherever the words stand in the query: "december
\* january" gives month 1.
C27_FirstInTable ==
    (Resolved /\ NoRelativePhrase /\ Cardinality(MonthsNamedIn(QueryLower)) > 1) =>
        \E i \in KeysNamedIn(QueryLower) :
            /\ \A j \in KeysNamedIn(QueryLower) : i <= j
            /\ month_year.month = months[i].value

C27_Witness ==
    /\ pc = "resolved"
    /\ query.s = <<"d", "e", "c", "e", "m", "b", "e", "r", " ",
                   "j", "a", "n", "u", "a", "r", "y">>
    /\ month_year.month = 1

---------------------------------------------------------------------------
(* The monthly figures of the reports *)

MonthlyReport ==
    /\ response_text.t = "report"
    /\ response_text.template \in {"comprehensive", "comparison"}
    /\ response_text.monthly # <<>>

\* C28: the production and the OEE that the comprehensive and the comparison
\* report print for a month are the Ai_partcount sum and the avg_oee mean of
\* that month in monthly_breakdown.  The templates read the keys
\* 'Part Produced' and 'OEE (%)', which no entry has, and print 0, so this
\* is violated.
C28_MonthlyFigures ==
    MonthlyReport =>
        \A i \in 1..Len(response_text.monthly) :
            LET line == response_text.monthly[i]
                entry == machine_data["summary"]["monthly_breakdown"][line.month]
            IN /\ line.production = entry["Ai_partcount"]
               /\ line.oee = entry["avg_oee"]

---------------------------------------------------------------------------
(* The load of a machine directory *)

\* the places of the directory whose file pd.read_csv reads
ReadablePlaces == { k \in 1..Len(csv_files) : csv_files[k].readable }

RECURSIVE RowsRecorded(_)
RowsRecorded(entries) ==
    IF entries = <<>> THEN 0 ELSE Head(entries).shape[1] + RowsRecorded(Tail(entries))

\* C29: get_machine_data records and concatenates every CSV file that loads
\* and skips every file that does not, without giving up on the others: the
\* rows of combined_data are as many as the rows recorded under files, and
\* a file without some of the columns is loaded like any other.
C29_EveryFileThatLoads ==
    fpc.at = "returned" =>
        /\ { data_files[i].filename : i \in 1..Len(data_files) }
             = { basename(k) : k \in ReadablePlaces }
        /\ Len(data_files) = Cardinality(ReadablePlaces)
        /\ IF ReadablePlaces = {} THEN combined_data = None
           ELSE Len(combined_data.rows) = RowsRecorded(data_files)

\* a directory of three files: one with all columns, one that does not
\* load, one without most of the columns
C29_Witness ==
    /\ fpc.at = "returned"
    /\ Len(csv_files) = 3
    /\ csv_files[1].columns = AllColumns
    /\ ~csv_files[2].readable
    /\ csv_files[3].columns = <<"date", "Ai_partcount">>
    /\ Len(data_files) = 2
    /\ Len(combined_data.rows) = 2
    /\ combined_data.columns = AllColumns

---------------------------------------------------------------------------
(* The order of the steps of process_chat_query *)

ChatSteps == <<"get_specific_file_data", "analyze_query", "generate_response", "generate_charts">>

ChartsCalled == "generate_charts" \in Range(calls)

\* needs_chart of the analysis holds a value that Python takes for true
AsksForCharts == HasKey(analysis, "needs_chart") /\ truthy(Get(analysis, "needs_chart", JNull))

\* C30: process_chat_query fetches, classifies, composes and draws in this
\* order; the chart generator is called only for an analysis whose
\* needs_chart is true, and when needs_chart is false or absent the success
\* response has charts = [].
C30_StepOrder ==
    /\ Len(calls) <= Len(ChatSteps)
    /\ \A i \in 1..Len(calls) : calls[i] = ChatSteps[i]
    /\ ChartsCalled => (analysis.t = "dict" /\ AsksForCharts)
    /\ (cpc = "returned" /\ result["type"] = "success") =>
          /\ Len(calls) >= 3
          /\ ChartsCalled <=> AsksForCharts
          /\ ~AsksForCharts => result["charts"] = <<>>

\* a success response to an analysis without needs_chart
C30_Witness ==
    /\ cpc = "returned"
    /\ result["type"] = "success"
    /\ analysis.t = "dict"
    /\ ~HasKey(analysis, "needs_chart")
    /\ calls = <<"get_specific_file_data", "analyze_query", "generate_response">>
    /\ result["charts"] = <<>>

====
